---- MODULE Spec2Model ----
(***************************************************************************)
(* trend-signal: the fetch / cache / normalise pipeline of                 *)
(* src/src/data_fetcher.py on top of the cache table of                    *)
(* src/src/database.py, with the dashboard caller of src/src/app.py.       *)
(*                                                                         *)
(* Time is counted in minutes of UTC wall-clock time.  An optional value   *)
(* (Python None or a value) is a sequence of length 0 or 1.  A DataFrame   *)
(* is the sequence of its rows in row order; a row is its index value and  *)
(* `val`, which stands for the row's five OHLCV column values.  A message  *)
(* is the sequence of the text fragments an f-string concatenates.         *)
(***************************************************************************)
EXTENDS Integers, Sequences, FiniteSets, TLC

\* ------------------------------------------------------------- bounds
MaxEntries == 2
MaxClock == 20
Tick == 10
MaxRows == 2
Spare == 1

\* ------------------------------------------------- program constants
FreshMinutes == 5
StaleMinutes == 15
CryptoHead == 100

\* ------------------------------------------------------ input spaces
Symbols == {"AAPL", "BTC"}
\* what a caller may pass as symbol: also a blank string
SymbolInputs == Symbols \cup {" "}
Markets == {"stock", "crypto"}
UtcOffsets == {-10, 0, 10}
Procs == {1}

None == <<>>
Some(x) == <<x>>

Max(S) == CHOOSE x \in S : \A y \in S : y <= x

\* ---------------------------------------------------------- messages
\* <<text, needle>>: Python's `needle in text` for the texts that occur.
TextHas ==
  { <<"Invalid API call. Please retry or visit the documentation", "Invalid API call">>,
    <<"Our standard API call frequency is 5 calls per minute", "API call frequency">>,
    <<"Our standard API call frequency is 5 calls per minute", "frequency">>,
    <<"Our standard API rate limit is 25 requests per day", "API rate limit">>,
    <<"Our standard API rate limit is 25 requests per day", "rate limit">>,
    <<"Invalid API call; API rate limit", "Invalid API call">>,
    <<"Invalid API call; API rate limit", "API rate limit">>,
    <<"Invalid API call; API rate limit", "rate limit">>,
    <<"API rate limit reached. Please try again later.", "API rate limit">>,
    <<"API rate limit reached. Please try again later.", "rate limit">>,
    <<"No data returned for symbol: ", "No data returned">>,
    <<"Unexpected API response format for ", "Unexpected API response format for ">>,
    <<"Error processing data for ", "Error processing data">>,
    <<"Network error while fetching data: ", "Network error">>,
    <<"Invalid symbol: ", "Invalid symbol: ">>,
    <<"Invalid symbol format: ", "Invalid symbol">> }

Contains(msg, needle) ==
  \E i \in 1..Len(msg) : msg[i] = needle \/ <<msg[i], needle>> \in TextHas

\* Python's exception hierarchy as far as the handlers test it.
\* requests.exceptions.RequestException derives from IOError, not from the
\* builtin ConnectionError; json's JSONDecodeError derives from ValueError.
IsA(type, cls) ==
  \/ type = cls
  \/ cls = "Exception"
  \/ cls = "ValueError" /\ type = "JSONDecodeError"
  \/ cls = "RequestException" /\ type \in {"requests.ConnectionError", "requests.Timeout"}
  \/ cls = "DataFetcherError" /\ type \in {"InvalidSymbolError", "APIError"}

\* -------------------------------------------------------- DataFrames
Timestamp(d) == [kind |-> "Timestamp", at |-> d]
\* str(k) of a pandas Timestamp key: its text, no longer a Timestamp
Str(k) == [kind |-> "str", at |-> k.at]

Row(d, v) == [idx |-> Timestamp(d), val |-> v]

\* Python dict, insertion ordered, built from <<key, value>> pairs: one
\* entry per key at the place where the key came first, holding the value
\* assigned to it last.
DictOf(pairs) ==
  LET n == Len(pairs)
      firsts == SelectSeq([i \in 1..n |-> i],
                          LAMBDA i : \A j \in 1..(i - 1) : pairs[j][1] # pairs[i][1])
  IN [k \in 1..Len(firsts) |->
        LET key == pairs[firsts[k]][1]
        IN <<key, pairs[Max({ j \in 1..n : pairs[j][1] = key })][2]>>]

\* df.to_dict(): per column {index value: cell}, in row order
to_dict(df) == DictOf([i \in 1..Len(df) |-> <<df[i].idx, df[i].val>>])

\* pd.DataFrame.from_dict(cached_data): the dict's keys become the index as
\* they are, in insertion order
from_dict(dict) == [i \in 1..Len(dict) |-> [idx |-> dict[i][1], val |-> dict[i][2]]]

\* df.sort_index(ascending=False): greatest index first; rows of one index
\* value keep their order
sort_desc(df) == SortSeq(df, LAMBDA a, b : a.idx.at > b.idx.at)

\* mutant: nothing is cut off
head_All(df, n) == df

\* df.head(n)
head(df, n) == SubSeq(df, 1, IF Len(df) < n THEN Len(df) ELSE n)

\* ------------------------------------------------- database.py: cache
RequiredFields == {"score", "macd", "macd_signal", "ema_short", "ema_long"}

\* str(processed_data) and eval(data_json): for a dict of str keys and finite
\* floats the text evaluates back to an equal dict; the text is kept as the
\* tagged dict it spells.
PyStr(dict) == [text |-> dict]
PyEval(s) == s.text

\* save_analysis lines 56-60: every index key replaced by str(k)
Processed(raw) == DictOf([i \in 1..Len(raw) |-> <<Str(raw[i][1]), raw[i][2]>>])

StockAnalysis(symbol, now, analysis_data, data_str) ==
  [ symbol |-> symbol,
    timestamp |-> now,
    score |-> analysis_data["score"],
    macd |-> analysis_data["macd"],
    macd_signal |-> analysis_data["macd_signal"],
    ema_short |-> analysis_data["ema_short"],
    ema_long |-> analysis_data["ema_long"],
    alert_triggered |-> FALSE,
    data_json |-> data_str ]

\* mutant: the symbol's earlier rows are replaced by the new one
Insert_Upsert(d, entry) ==
  SelectSeq(d, LAMBDA x : x.symbol # entry.symbol) \o <<entry>>

\* session.add + session.commit: one more row; nothing else is touched
Insert(d, entry) == Append(d, entry)

\* mutant: a failed commit is swallowed and the row is kept
save_analysis_Swallowed(d, symbol, analysis_data, raw_data, now, commit_ok, serialize_ok) ==
  IF ~(RequiredFields \subseteq DOMAIN analysis_data)
  THEN [db |-> d, raised |-> TRUE, type |-> "ValueError"]
  ELSE [db |-> Insert(d, StockAnalysis(symbol, now, analysis_data,
                                      IF raw_data # None /\ serialize_ok
                                      THEN Some(PyStr(Processed(raw_data[1])))
                                      ELSE None)),
        raised |-> FALSE, type |-> "none"]

\* mutant: a failed serialisation is not swallowed but raised
save_analysis_Strict(d, symbol, analysis_data, raw_data, now, commit_ok, serialize_ok) ==
  IF ~(RequiredFields \subseteq DOMAIN analysis_data)
  THEN [db |-> d, raised |-> TRUE, type |-> "ValueError"]
  ELSE IF ~commit_ok \/ (raw_data # None /\ ~serialize_ok)
  THEN [db |-> d, raised |-> TRUE, type |-> "Exception"]
  ELSE [db |-> Insert(d, StockAnalysis(symbol, now, analysis_data,
                                      IF raw_data # None
                                      THEN Some(PyStr(Processed(raw_data[1])))
                                      ELSE None)),
        raised |-> FALSE, type |-> "none"]

\* DatabaseManager.save_analysis.  raw_data is None or Some(dict); commit_ok
\* is whether the storage layer accepts the commit, serialize_ok whether
\* lines 56-61 run without an exception (otherwise data_str = None, lines
\* 64-66).  The result is the new table and whether the call raised (after
\* session.rollback()).
save_analysis(d, symbol, analysis_data, raw_data, now, commit_ok, serialize_ok) ==
  IF ~(RequiredFields \subseteq DOMAIN analysis_data)
  THEN [db |-> d, raised |-> TRUE, type |-> "ValueError"]
  ELSE LET data_str == IF raw_data # None /\ serialize_ok
                       THEN Some(PyStr(Processed(raw_data[1])))
                       ELSE None
       IN IF commit_ok
          THEN [db |-> Insert(d, StockAnalysis(symbol, now, analysis_data, data_str)),
                raised |-> FALSE, type |-> "none"]
          ELSE [db |-> d, raised |-> TRUE, type |-> "Exception"]

\* ORDER BY timestamp DESC .first() over the rows in `among`: the row with
\* the greatest timestamp; of rows of one instant, the one inserted last
\* (0: no row).
Newest(d, among) ==
  IF among = {} THEN 0
  ELSE LET top == Max({d[i].timestamp : i \in among})
       IN Max({i \in among : d[i].timestamp = top})

\* datetime.now(): the host's local wall-clock time, naive
LocalNow(now, utc_offset) == now + utc_offset

\* the cutoff of get_cached_data, line 101
Cutoff(now, utc_offset, max_age_minutes) == LocalNow(now, utc_offset) - max_age_minutes

\* DatabaseManager.get_cached_data: [hit: the row whose table is returned
\* (0: none), ret: None or Some(dict), failed: a table was there to be
\* returned and an exception was swallowed instead].  read_ok is whether the
\* query and the decoding of the payload run without an exception
\* (otherwise None is returned, lines 126-128 and 134-136).
get_cached_data(d, symbol, max_age_minutes, now, utc_offset, read_ok) ==
  LET cutoff_time == Cutoff(now, utc_offset, max_age_minutes)
      latest == Newest(d, {i \in 1..Len(d) : /\ d[i].symbol = symbol
                                             /\ d[i].timestamp > cutoff_time})
  IN IF latest # 0 /\ d[latest].data_json # None
     THEN IF read_ok
          THEN [hit |-> latest, ret |-> Some(PyEval(d[latest].data_json[1])),
                failed |-> FALSE]
          ELSE [hit |-> 0, ret |-> None, failed |-> TRUE]
     ELSE [hit |-> 0, ret |-> None, failed |-> FALSE]

\* DatabaseManager.get_latest_analysis: the row (0: none)
get_latest_analysis(d, symbol) ==
  Newest(d, {i \in 1..Len(d) : d[i].symbol = symbol})

\* -------------------------------------------- what the provider sends
Has(text, needle) == text = needle \/ <<text, needle>> \in TextHas

\* the tables a provider delivers: no rows, or two rows oldest first
Frames == { <<>>, <<Row(1, 7), Row(2, 8)>> }

NonEmptyFrames == Frames \ {<<>>}

ValueErrorTexts ==
  { "Invalid API call. Please retry or visit the documentation",
    "Our standard API rate limit is 25 requests per day",
    "Our standard API call frequency is 5 calls per minute",
    "Invalid API call; API rate limit",
    "premium endpoint" }

\* TimeSeries.get_intraday / get_daily: (df, meta) with df None, empty or
\* not, or an exception
StockResponses ==
  { [kind |-> "frame", frame |-> f] : f \in {None} \cup { Some(x) : x \in Frames } }
  \cup { [kind |-> "raise", type |-> "ValueError", text |-> t] : t \in ValueErrorTexts }
  \cup { [kind |-> "raise", type |-> t, text |-> "connection refused"] :
           t \in {"ConnectionError", "requests.ConnectionError", "KeyError"} }

InfoTexts ==
  { "absent",
    "Invalid API call. Please retry or visit the documentation",
    "Our standard API rate limit is 25 requests per day" }

NoteTexts ==
  { "absent",
    "Our standard API call frequency is 5 calls per minute",
    "Our standard API rate limit is 25 requests per day" }

\* the JSON body of DIGITAL_CURRENCY_DAILY: which keys it has, and under
\* "Time Series (Digital Currency Daily)" the dated rows in document order;
\* fields: whether every row has the five USD fields, lacks one of them, or
\* holds a text that is no number (the latter two in bodies that have the
\* time series and nothing else); "cells": the rows spell out their fields
CryptoBodies ==
  { [error_message |-> e, information |-> i, note |-> n, series |-> s, fields |-> "complete"] :
      e \in BOOLEAN, i \in InfoTexts, n \in NoteTexts,
      s \in {None} \cup { Some(x) : x \in Frames } }
  \cup { [error_message |-> FALSE, information |-> "absent", note |-> "absent",
          series |-> Some(x), fields |-> f] :
            x \in NonEmptyFrames, f \in {"missing", "nonnumeric"} }

\* the bodies sent along with an error status: one with "Error Message",
\* one with the call-frequency "Note"
ErrorStatusBodies ==
  { b \in CryptoBodies :
      /\ b.series = None /\ b.information = "absent"
      /\ \/ b.error_message /\ b.note = "absent"
         \/ ~b.error_message /\ b.note = "Our standard API call frequency is 5 calls per minute" }

\* requests.get(...) and response.json()
CryptoResponses ==
  { [kind |-> "http", status |-> "200", body |-> b] : b \in CryptoBodies }
  \cup { [kind |-> "http", status |-> st, body |-> b] :
           st \in {"429", "500"}, b \in ErrorStatusBodies }
  \cup { [kind |-> "raise", type |-> t, text |-> "connection refused"] :
           t \in {"requests.ConnectionError", "requests.Timeout", "JSONDecodeError"} }

\* ------------------------------------- time series spelled out by field
\* A cell is a text as the JSON body spells it or a float; `num` is the
\* number it stands for, None for a text that is no number and for NaN.
Text(n) == [kind |-> "str", num |-> Some(n)]
NoNumber == [kind |-> "str", num |-> None]
Float64(n) == [kind |-> "float", num |-> Some(n)]
NaN == [kind |-> "float", num |-> None]

\* a key of the time series, e.g. "2023-12-01"
DateKey(d) == [kind |-> "str", at |-> d]

UsdFields ==
  {"1a. open (USD)", "2a. high (USD)", "3a. low (USD)", "4a. close (USD)", "5. volume"}

\* the fields the normaliser drops: the second-currency duplicates (one
\* stands for the four) and the market cap
OtherFields == {"1b. open (USD)", "6. market cap (USD)"}

\* the number a field of the row dated d spells: different for every field
\* and every date
Quote(d, field) ==
  10 * d + (CASE field = "1a. open (USD)" -> 1
              [] field = "2a. high (USD)" -> 2
              [] field = "3a. low (USD)" -> 3
              [] field = "4a. close (USD)" -> 4
              [] field = "5. volume" -> 5
              [] field = "1b. open (USD)" -> 6
              [] OTHER -> 7)

RowKinds == {"full", "usd", "no_close", "open_only", "text_close", "text_cap"}

\* the fields of one dated row of the body
Fields(kind, d) ==
  LET names == CASE kind = "usd" -> UsdFields
                 [] kind = "no_close" -> (UsdFields \cup OtherFields) \ {"4a. close (USD)"}
                 [] kind = "open_only" -> {"1a. open (USD)"}
                 [] OTHER -> UsdFields \cup OtherFields
  IN [f \in names |->
        IF \/ kind = "text_close" /\ f = "4a. close (USD)"
           \/ kind = "text_cap" /\ f = "6. market cap (USD)"
        THEN NoNumber
        ELSE Text(Quote(d, f))]

\* short time series: up to MaxRows rows of different dates in any order
RECURSIVE ShortSeries(_)
ShortSeries(n) ==
  IF n = 0 THEN { <<>> }
  ELSE { Append(s, <<DateKey(d), Fields(k, d)>>) :
           s \in ShortSeries(n - 1),
           d \in 1..MaxRows, k \in RowKinds }

DistinctKeys(series) ==
  \A i, j \in 1..Len(series) : series[i][1] = series[j][1] => i = j

\* the place of date d in a long series of n rows
Place(order, n, i) ==
  CASE order = "oldest_first" -> i
    [] order = "newest_first" -> n + 1 - i
    [] OTHER -> ((7 * i) % n) + 1

\* long time series: around CryptoHead rows
LongSeries ==
  { [i \in 1..n |-> <<DateKey(Place(order, n, i)), Fields("full", Place(order, n, i))>>] :
      n \in (CryptoHead - 1)..(CryptoHead + Spare),
      order \in {"oldest_first", "newest_first", "shuffled"} }

CellSeries ==
  { s \in UNION { ShortSeries(n) : n \in 0..MaxRows } : DistinctKeys(s) } \cup LongSeries

\* HTTP 200 with a body that has the time series and no other key
CellResponses ==
  { [kind |-> "http", status |-> "200",
     body |-> [error_message |-> FALSE, information |-> "absent", note |-> "absent",
               series |-> Some(s), fields |-> "cells"]] : s \in CellSeries }

\* what the provider answers to a request for `symbol`: anything for a
\* listed symbol; for a blank symbol never a table
ProviderAnswers(symbol, market_type) ==
  LET all == IF market_type = "crypto" THEN CryptoResponses ELSE StockResponses
  IN IF symbol \in Symbols
     THEN all
     ELSE { a \in all : \/ a.kind = "raise"
                        \/ a.kind = "http" /\ (a.status # "200" \/ a.body.series = None) }

\* what may go wrong in the storage layer during one call: nothing, the
\* commit, the serialisation of the table, or the reading of a row
Faults == {"none", "commit", "serialize", "read"}

\* ----------------------------------------- data_fetcher.py: the fetcher
InTry(t, class, df, type, msg) ==
  [t |-> t, class |-> class, df |-> df, type |-> type, msg |-> msg]

RateLimitMessage == <<"API rate limit reached. Please try again later.">>

\* mutant: no body counts as an invalid-symbol report
IsInvalidBody_Never(data) == FALSE

\* line 79 / 201
IsInvalidBody(data) ==
  \/ data.error_message
  \/ data.information # "absent" /\ Has(data.information, "Invalid API call")

\* mutant: no Note counts as a rate limit
IsRateLimitNote_Never(data) == FALSE

\* line 81 / 203
IsRateLimitNote(data) ==
  data.note # "absent" /\ Has(data.note, "API call frequency")

\* mutant: the status code is not looked at
StatusOk_Any(status) == TRUE

\* lines 73 / 195 / 297: response.status_code != 200
StatusOk(status) == status = "200"

\* mutant: a body without the time series always counts as invalid symbol
MissingSeries_Invalid(data, symbol) ==
  InTry("raise", "invalid_symbol", <<>>, "InvalidSymbolError", <<"Invalid symbol: ", symbol>>)

\* lines 90-94 / 207-211: the body has no "Time Series (Digital Currency
\* Daily)" key
MissingSeries(data, symbol) ==
  IF data.information # "absent"
  THEN InTry("raise", "no_series_information", <<>>, "InvalidSymbolError",
             <<"Invalid symbol: ", symbol>>)
  ELSE InTry("raise", "unexpected", <<>>, "DataFetcherError",
             <<"Unexpected API response format for ", symbol>>)

\* ---------------------------------- the crypto normaliser, cell by cell
\* lines 98 / 215: pd.to_datetime(df.index)
to_datetime(k) == Timestamp(k.at)

\* lines 111 / 227: the columns the fetcher keeps
Columns == {"1. open", "2. high", "3. low", "4. close", "5. volume"}

\* mutant: the second-currency fields are taken for the USD ones
Rename_B(c) ==
  CASE c = "1b. open (USD)" -> "1. open"
    [] c = "2a. high (USD)" -> "2. high"
    [] c = "3a. low (USD)" -> "3. low"
    [] c = "4a. close (USD)" -> "4. close"
    [] OTHER -> c

\* lines 102-108 / 218-224: the mapping of df.rename(columns=...)
Rename(c) ==
  CASE c = "1a. open (USD)" -> "1. open"
    [] c = "2a. high (USD)" -> "2. high"
    [] c = "3a. low (USD)" -> "3. low"
    [] c = "4a. close (USD)" -> "4. close"
    [] OTHER -> c

\* lines 97 / 214: pd.DataFrame.from_dict(series, orient='index'): one row
\* per key in document order, one column per field that any row has, NaN
\* where a row lacks the field.  series is a sequence of <<key, fields>>.
from_dict_index(series) ==
  LET cols == UNION { DOMAIN series[i][2] : i \in 1..Len(series) }
  IN [ cols |-> cols,
       rows |-> [i \in 1..Len(series) |->
                   [idx |-> series[i][1],
                    cells |-> [c \in cols |-> IF c \in DOMAIN series[i][2]
                                              THEN series[i][2][c] ELSE NaN]]] ]

\* float(x) accepts x
Numeric(cell) == cell.kind = "float" \/ cell.num # None

\* a step of the normaliser: the frame it yields, or the exception text
Ok(frame) == [raises |-> FALSE, text |-> "none", frame |-> frame]

Then(step, Op(_)) == IF step.raises THEN step ELSE Op(step.frame)

\* lines 98 / 215: df.index = pd.to_datetime(df.index)
WithDates(frame) ==
  Ok([frame EXCEPT !.rows = [i \in 1..Len(frame.rows) |->
                               [frame.rows[i] EXCEPT !.idx = to_datetime(@)]]])

\* lines 99, 112 / 228: df.astype(float) (ValueError: some cell is no number)
astype_float(frame) ==
  IF \E i \in 1..Len(frame.rows) : \E c \in frame.cols : ~Numeric(frame.rows[i].cells[c])
  THEN [raises |-> TRUE, text |-> "could not convert string to float", frame |-> frame]
  ELSE Ok([frame EXCEPT !.rows =
             [i \in 1..Len(frame.rows) |->
                [frame.rows[i] EXCEPT !.cells =
                   [c \in frame.cols |-> [kind |-> "float", num |-> @[c].num]]]]])

\* line 99: get_intraday_data converts every column of the body to float
\* before it renames and selects; get_daily_data has no such statement
ConvertAll(frame, intraday) == IF intraday THEN astype_float(frame) ELSE Ok(frame)

\* lines 102-108 / 218-224: df.rename(columns=mapping)
rename(frame) ==
  Ok([ cols |-> { Rename(c) : c \in frame.cols },
       rows |-> [i \in 1..Len(frame.rows) |->
                   [idx |-> frame.rows[i].idx,
                    cells |-> [c \in { Rename(b) : b \in frame.cols } |->
                                 frame.rows[i].cells[CHOOSE b \in frame.cols : Rename(b) = c]]]] ])

\* lines 111 / 227: df[[...]] (KeyError: a column is not there)
select(frame) ==
  IF ~(Columns \subseteq frame.cols)
  THEN [raises |-> TRUE, text |-> "not in index", frame |-> frame]
  ELSE Ok([ cols |-> Columns,
            rows |-> [i \in 1..Len(frame.rows) |->
                        [idx |-> frame.rows[i].idx,
                         cells |-> [c \in Columns |-> frame.rows[i].cells[c]]]] ])

\* the rows of a frame as the fetcher's tables are kept: index and columns
RowsOf(frame) ==
  [i \in 1..Len(frame.rows) |-> [idx |-> frame.rows[i].idx, val |-> frame.rows[i].cells]]

\* line 118: df.head(100), in get_intraday_data only
Truncated(df, intraday) == IF intraday THEN head(df, CryptoHead) ELSE df

\* lines 115-120 / 231-233: sort, truncate; an exception of an earlier
\* statement is what the except clause of line 119 / 232 gets
Sorted(step, intraday) ==
  IF step.raises
  THEN [t |-> "raise", df |-> <<>>, text |-> step.text]
  ELSE [t |-> "frame", df |-> Truncated(sort_desc(RowsOf(step.frame)), intraday),
        text |-> "none"]

\* lines 96-118 (intraday = TRUE) and 213-231, statement by statement
NormalizeCells(series, intraday) ==
  Sorted(Then(Then(Then(Then(WithDates(from_dict_index(series)),
                             LAMBDA f : ConvertAll(f, intraday)),
                        rename),
                   select),
              astype_float),
         intraday)

\* lines 96-120 (intraday = TRUE) and 213-233: the crypto normaliser
\* rename the USD fields, select the five columns, sort, truncate
NormalizeCrypto(series, intraday) ==
  LET sorted == sort_desc(series)
  IN IF intraday THEN head(sorted, CryptoHead) ELSE sorted

\* lines 119-120 / 232-233: an exception of the normaliser is raised again
\* as DataFetcherError; otherwise df is the table
Normalized(made, series, symbol) ==
  IF made.t = "raise"
  THEN InTry("raise", IF series = <<>> THEN "empty" ELSE "processing",
             <<>>, "DataFetcherError",
             <<"Error processing data for ", symbol, ": ", made.text>>)
  ELSE InTry("frame", "table", made.df, "none", <<>>)

\* lines 64-120 of get_intraday_data and 186-233 of get_daily_data: what
\* the crypto branch does with the provider's answer inside the try block
CryptoBranch(resp, symbol, intraday) ==
  IF resp.kind = "raise"
  THEN InTry("raise", "network", <<>>, resp.type, <<resp.text>>)
  ELSE IF ~StatusOk(resp.status)
  THEN InTry("raise", "http_status", <<>>, "APIError",
             <<"API request failed with status code ", resp.status>>)
  ELSE LET data == resp.body
       IN IF IsInvalidBody(data)
          THEN InTry("raise", "invalid_symbol", <<>>, "InvalidSymbolError",
                     <<"Invalid symbol: ", symbol>>)
          ELSE IF IsRateLimitNote(data)
          THEN IF intraday
               THEN InTry("fallback", "rate_limit", <<>>, "none", <<>>)
               ELSE InTry("raise", "rate_limit", <<>>, "APIError", RateLimitMessage)
          ELSE IF data.series = None
          THEN MissingSeries(data, symbol)
          ELSE IF data.fields = "cells"
          THEN Normalized(NormalizeCells(data.series[1], intraday), data.series[1], symbol)
          ELSE IF data.fields = "nonnumeric" /\ data.series[1] # <<>>
          THEN InTry("raise", "processing", <<>>, "DataFetcherError",
                     <<"Error processing data for ", symbol, ": ", "could not convert string to float">>)
          ELSE IF data.fields = "missing" \/ data.series[1] = <<>>
          THEN InTry("raise", IF data.series[1] = <<>> THEN "empty" ELSE "processing",
                     <<>>, "DataFetcherError",
                     <<"Error processing data for ", symbol, ": ", "not in index">>)
          ELSE InTry("frame", "table", NormalizeCrypto(data.series[1], intraday), "none", <<>>)

\* lines 122-130 of get_intraday_data; lines 235-239 of get_daily_data
StockBranch(resp, symbol) ==
  IF resp.kind = "raise"
  THEN InTry("raise", "provider_exception", <<>>, resp.type, <<resp.text>>)
  ELSE IF resp.frame = None \/ resp.frame[1] = <<>>
  THEN InTry("raise", "empty", <<>>, "DataFetcherError",
             <<"No data returned for symbol: ", symbol>>)
  ELSE InTry("frame", "table", resp.frame[1], "none", <<>>)

\* mutant: the rate-limit test comes before the invalid-call test
Handler_RateLimitFirst(exc, symbol, fallback) ==
  IF IsA(exc.type, "ValueError")
  THEN IF Contains(exc.msg, "API rate limit")
       THEN IF fallback
            THEN InTry("fallback", "rate_limit", <<>>, "none", <<>>)
            ELSE InTry("raise", "rate_limit", <<>>, "APIError", RateLimitMessage)
       ELSE IF Contains(exc.msg, "Invalid API call")
       THEN InTry("raise", "invalid_symbol", <<>>, "InvalidSymbolError",
                  <<"Invalid symbol: ", symbol>>)
       ELSE InTry("raise", "api_error", <<>>, "APIError", <<"API error: ">> \o exc.msg)
  ELSE IF IsA(exc.type, "ConnectionError")
  THEN InTry("raise", "network", <<>>, "APIError",
             <<"Network error while fetching data: ">> \o exc.msg)
  ELSE IF exc.type \in {"InvalidSymbolError", "APIError"}
  THEN exc
  ELSE InTry("raise", exc.class, <<>>, "DataFetcherError",
             <<"Error fetching data for ", symbol, ": ">> \o exc.msg)

\* mutant: no except clause; whatever was raised leaves the call as it is
Handler_Reraise(exc, symbol, fallback) == exc

\* lines 147-168 and 246-262: the except clauses, first match wins.
\* fallback = TRUE: the ValueError rate-limit clause tries the stale tier.
Handler(exc, symbol, fallback) ==
  IF IsA(exc.type, "ValueError")
  THEN IF Contains(exc.msg, "Invalid API call")
       THEN InTry("raise", "invalid_symbol", <<>>, "InvalidSymbolError",
                  <<"Invalid symbol: ", symbol>>)
       ELSE IF Contains(exc.msg, "API rate limit")
       THEN IF fallback
            THEN InTry("fallback", "rate_limit", <<>>, "none", <<>>)
            ELSE InTry("raise", "rate_limit", <<>>, "APIError", RateLimitMessage)
       ELSE InTry("raise", "api_error", <<>>, "APIError", <<"API error: ">> \o exc.msg)
  ELSE IF IsA(exc.type, "ConnectionError")
  THEN InTry("raise", "network", <<>>, "APIError",
             <<"Network error while fetching data: ">> \o exc.msg)
  ELSE IF exc.type \in {"InvalidSymbolError", "APIError"}
  THEN exc
  ELSE InTry("raise", exc.class, <<>>, "DataFetcherError",
             <<"Error fetching data for ", symbol, ": ">> \o exc.msg)

\* mutant: the write-through carries a score bundle that is not zero
Placeholder_Scored ==
  [score |-> 70, macd |-> 2, macd_signal |-> 1, ema_short |-> 3, ema_long |-> 2]

\* lines 135-141: the score bundle of the write-through
Placeholder ==
  [score |-> 0, macd |-> 0, macd_signal |-> 0, ema_short |-> 0, ema_long |-> 0]

\* mutant: the cache is consulted whatever force_refresh says
CheckCacheFirst_Always(force_refresh) == TRUE

\* line 57
CheckCacheFirst(force_refresh) == ~force_refresh

\* mutant: a cached table is never used
CacheHit_Never(cached_data) == FALSE

\* line 59
CacheHit(cached_data) == cached_data # None

\* mutant: the fallback looks no further back than the fresh tier
FallbackMaxAge_Fresh == FreshMinutes

\* lines 83 and 152: the max_age_minutes of the fallback lookup
FallbackMaxAge == StaleMinutes

\* what TechnicalAnalyzer.analyze() hands to app.py line 133
AnalysisResults ==
  { [score |-> 70, macd |-> 2, macd_signal |-> 1, ema_short |-> 3, ema_long |-> 2, rsi |-> 50] }

\* --------------------------------------------------------------- state
VARIABLES
  db,         \* the stock_analysis table: its rows in insertion order
  clock,      \* UTC wall-clock time, minutes
  utc_offset, \* the host's local time minus UTC, minutes
  req,        \* per caller: the call in progress and what it did so far
  written,    \* history: per row of db, the DataFrame whose to_dict() it stores
  analyzer,   \* a TechnicalAnalyzer object and the table it shares with its caller
  page        \* what analyze_symbol displayed and returned

vars == <<db, clock, utc_offset, req, written, analyzer, page>>

\* analyze_symbol has not run: nothing displayed, nothing returned
Blank ==
  [ pc |-> "blank",
    shown |-> <<>>,      \* the messages displayed, with their level
    returned |-> FALSE,  \* a (data, analysis_results) pair was returned, not None
    data |-> <<>>,       \* Some(table) of the pair
    analysis |-> <<>>,   \* Some(results) of the pair, None for no results
    lookups |-> <<>> ]   \* get_cached_data calls made by analyze_symbol itself

\* no TechnicalAnalyzer has been constructed
Unused == [pc |-> "unused"]

NoError == [type |-> "none", msg |-> <<>>]

\* no call in progress
Idle ==
  [ pc |-> "idle", op |-> "none", symbol |-> "none", market |-> "none",
    force_refresh |-> FALSE,
    lookups |-> <<>>,     \* get_cached_data calls: max_age, row read, result
    calls |-> 0,          \* provider calls issued
    class |-> "none",     \* how the provider's answer was classified
    fetched |-> None,     \* the non-empty table obtained from the provider
    writes |-> <<>>,      \* the rows this call inserted
    outcome |-> "none",   \* "return" or "raise"
    err |-> NoError,
    result |-> None,      \* the DataFrame returned
    pair |-> None,        \* the (gainers, losers) returned
    latest |-> 0 ]        \* the row get_latest_analysis returned

Lookup(max_age, now, look) ==
  [max_age |-> max_age, hit |-> look.hit, ret |-> look.ret, failed |-> look.failed]

Returns(rq, df) == [rq EXCEPT !.pc = "done", !.outcome = "return", !.result = Some(df)]

Raises(rq, type, msg) ==
  [rq EXCEPT !.pc = "done", !.outcome = "raise", !.err = [type |-> type, msg |-> msg]]

\* mutant: a call that misses while asked not to refresh issues no provider
\* call of its own
get_intraday_data_begin_Joined(d, now, off, symbol, market_type, force_refresh, read_ok) ==
  LET rq == [Idle EXCEPT !.op = "intraday", !.symbol = symbol,
                         !.market = market_type, !.force_refresh = force_refresh]
      look == get_cached_data(d, symbol, FreshMinutes, now, off, read_ok)
      looked == [rq EXCEPT !.lookups = <<Lookup(FreshMinutes, now, look)>>]
  IN IF CheckCacheFirst(force_refresh)
     THEN IF CacheHit(look.ret)
          THEN Returns(looked, from_dict(look.ret[1]))
          ELSE [looked EXCEPT !.pc = "calling", !.calls = 0]
     ELSE [rq EXCEPT !.pc = "calling", !.calls = 1]

\* get_intraday_data lines 54-61, up to the provider call of line 72 / 122
get_intraday_data_begin(d, now, off, symbol, market_type, force_refresh, read_ok) ==
  LET rq == [Idle EXCEPT !.op = "intraday", !.symbol = symbol,
                         !.market = market_type, !.force_refresh = force_refresh]
      look == get_cached_data(d, symbol, FreshMinutes, now, off, read_ok)
      looked == [rq EXCEPT !.lookups = <<Lookup(FreshMinutes, now, look)>>]
  IN IF CheckCacheFirst(force_refresh)
     THEN IF CacheHit(look.ret)
          THEN Returns(looked, from_dict(look.ret[1]))
          ELSE [looked EXCEPT !.pc = "calling", !.calls = 1]
     ELSE [rq EXCEPT !.pc = "calling", !.calls = 1]

\* mutant: a missed fallback asks the provider again
Fallback_Retry(rq, d, now, off, read_ok) ==
  LET look == get_cached_data(d, rq.symbol, FallbackMaxAge, now, off, read_ok)
      looked == [rq EXCEPT !.lookups = Append(@, Lookup(FallbackMaxAge, now, look))]
  IN IF CacheHit(look.ret)
     THEN Returns(looked, from_dict(look.ret[1]))
     ELSE [looked EXCEPT !.pc = "calling", !.calls = @ + 1]

\* lines 83-87 and 152-156: the stale-tier lookup
Fallback(rq, d, now, off, read_ok) ==
  LET look == get_cached_data(d, rq.symbol, FallbackMaxAge, now, off, read_ok)
      looked == [rq EXCEPT !.lookups = Append(@, Lookup(FallbackMaxAge, now, look))]
  IN IF CacheHit(look.ret)
     THEN Returns(looked, from_dict(look.ret[1]))
     ELSE Raises(looked, "APIError", RateLimitMessage)

\* mutant: the table is returned without being stored
WriteThrough_Skipped(rq, d, now, df, commit_ok, serialize_ok) ==
  [req |-> Returns(rq, df), db |-> d, exc |-> InTry("none", "none", <<>>, "none", <<>>)]

\* lines 132-145: write-through, then return df; a raising save_analysis
\* is an exception inside the try block
WriteThrough(rq, d, now, df, commit_ok, serialize_ok) ==
  LET saved == save_analysis(d, rq.symbol, Placeholder, Some(to_dict(df)), now,
                             commit_ok, serialize_ok)
  IN IF saved.raised
     THEN [req |-> rq, db |-> d,
           exc |-> InTry("raise", "cache_write", <<>>, saved.type, <<"commit failed">>)]
     ELSE [req |-> Returns([rq EXCEPT !.writes = Append(@, Len(saved.db))], df),
           db |-> saved.db,
           exc |-> InTry("none", "none", <<>>, "none", <<>>)]

\* mutant: a table served by the stale fallback is stored once more
get_intraday_data_finish_Restored(rq0, d, now, off, resp, commit_ok, serialize_ok, read_ok) ==
  LET body == IF rq0.market = "crypto"
              THEN CryptoBranch(resp, rq0.symbol, TRUE)
              ELSE StockBranch(resp, rq0.symbol)
      rq == [rq0 EXCEPT !.class = body.class,
                        !.fetched = IF body.t = "frame" THEN Some(body.df) ELSE None]
      wrote == WriteThrough(rq, d, now, body.df, commit_ok, serialize_ok)
      exc == IF body.t = "frame" THEN wrote.exc ELSE body
      handled == IF exc.t = "raise" THEN Handler(exc, rq.symbol, TRUE) ELSE exc
      served == Fallback([rq EXCEPT !.class = "rate_limit"], d, now, off, read_ok)
  IN IF body.t = "frame" /\ exc.t = "none"
     THEN [req |-> wrote.req, db |-> wrote.db]
     ELSE IF handled.t = "fallback"
     THEN [req |-> served,
           db |-> IF served.outcome = "return"
                  THEN Append(d, [d[served.lookups[Len(served.lookups)].hit]
                                    EXCEPT !.timestamp = now])
                  ELSE d]
     ELSE [req |-> Raises([rq EXCEPT !.class = IF body.t = "frame" THEN "table" ELSE handled.class],
                         handled.type, handled.msg),
           db |-> d]

\* get_intraday_data from the provider's answer on (lines 73-168):
\* [req: the finished call, db: the table afterwards]
get_intraday_data_finish(rq0, d, now, off, resp, commit_ok, serialize_ok, read_ok) ==
  LET body == IF rq0.market = "crypto"
              THEN CryptoBranch(resp, rq0.symbol, TRUE)
              ELSE StockBranch(resp, rq0.symbol)
      rq == [rq0 EXCEPT !.class = body.class,
                        !.fetched = IF body.t = "frame" THEN Some(body.df) ELSE None]
      wrote == WriteThrough(rq, d, now, body.df, commit_ok, serialize_ok)
      exc == IF body.t = "frame" THEN wrote.exc ELSE body
      handled == IF exc.t = "raise" THEN Handler(exc, rq.symbol, TRUE) ELSE exc
  IN IF body.t = "frame" /\ exc.t = "none"
     THEN [req |-> wrote.req, db |-> wrote.db]
     ELSE IF handled.t = "fallback"
     THEN [req |-> Fallback([rq EXCEPT !.class = "rate_limit"], d, now, off, read_ok), db |-> d]
     ELSE [req |-> Raises([rq EXCEPT !.class = IF body.t = "frame" THEN "table" ELSE handled.class],
                         handled.type, handled.msg),
           db |-> d]

\* get_daily_data line 183: isinstance(symbol, str) and symbol.strip()
ValidSymbolFormat(symbol) == symbol \notin {"", " "}

\* get_daily_data lines 181-194 / 235, up to the provider call
get_daily_data_begin(symbol, market_type) ==
  LET rq == [Idle EXCEPT !.op = "daily", !.symbol = symbol, !.market = market_type]
  IN IF ~ValidSymbolFormat(symbol)
     THEN Raises([rq EXCEPT !.class = "invalid_format"], "InvalidSymbolError",
                 <<"Invalid symbol format: ", symbol>>)
     ELSE [rq EXCEPT !.pc = "calling", !.calls = 1]

\* get_daily_data from the provider's answer on (lines 195-262)
get_daily_data_finish(rq0, resp) ==
  LET body == IF rq0.market = "crypto"
              THEN CryptoBranch(resp, rq0.symbol, FALSE)
              ELSE StockBranch(resp, rq0.symbol)
      rq == [rq0 EXCEPT !.class = body.class,
                        !.fetched = IF body.t = "frame" THEN Some(body.df) ELSE None]
      handled == IF body.t = "raise" THEN Handler(body, rq.symbol, FALSE) ELSE body
  IN IF body.t = "frame"
     THEN Returns(rq, sort_desc(body.df))
     ELSE Raises([rq EXCEPT !.class = handled.class], handled.type, handled.msg)

MoverLists == { <<>>, <<"NVDA">> }

\* the JSON body of TOP_GAINERS_LOSERS
MoversBodies ==
  { [error_message |-> e, note |-> n, top_gainers |-> g, top_losers |-> l] :
      e \in BOOLEAN, n \in NoteTexts,
      g \in {None} \cup { Some(x) : x \in MoverLists },
      l \in {None} \cup { Some(x) : x \in MoverLists } }

MoversErrorStatusBodies ==
  { b \in MoversBodies :
      /\ b.top_gainers = None /\ b.top_losers = None
      /\ \/ b.error_message /\ b.note = "absent"
         \/ ~b.error_message /\ b.note = "Our standard API call frequency is 5 calls per minute" }

MoversResponses ==
  { [kind |-> "http", status |-> "200", body |-> b] : b \in MoversBodies }
  \cup { [kind |-> "http", status |-> st, body |-> b] :
           st \in {"429", "500"}, b \in MoversErrorStatusBodies }
  \cup { [kind |-> "raise", type |-> t, text |-> "connection refused"] :
           t \in {"requests.ConnectionError", "requests.Timeout", "KeyError"} }

\* mutant: the lists of the body are not passed on
GetOrEmpty_Dropped(opt) == <<>>

\* data.get(key, [])
GetOrEmpty(opt) == IF opt = None THEN <<>> ELSE opt[1]

\* mutant: the call looks for a cached table before it gives up
get_top_gainers_losers_finish_Cached(rq, resp) ==
  Raises([rq EXCEPT !.class = "rate_limit",
                    !.lookups = <<Lookup(StaleMinutes, clock,
                                         get_cached_data(db, "AAPL", StaleMinutes, clock,
                                                         utc_offset, TRUE))>>],
         "APIError", RateLimitMessage)

\* get_top_gainers_losers (lines 289-321) from the provider's answer on
get_top_gainers_losers_finish(rq, resp) ==
  IF resp.kind = "raise"
  THEN IF IsA(resp.type, "RequestException")
       THEN Raises([rq EXCEPT !.class = "network"], "APIError",
                   <<"Network error while fetching data: ", resp.text>>)
       ELSE Raises([rq EXCEPT !.class = "provider_exception"], "DataFetcherError",
                   <<"Error fetching top gainers/losers: ", resp.text>>)
  ELSE IF ~StatusOk(resp.status)
  THEN IF resp.status = "429"
       THEN Raises([rq EXCEPT !.class = "rate_limit"], "APIError", RateLimitMessage)
       ELSE Raises([rq EXCEPT !.class = "http_status"], "APIError",
                   <<"API request failed with status code ", resp.status>>)
  ELSE IF resp.body.error_message
  THEN Raises([rq EXCEPT !.class = "api_error"], "APIError",
              <<"API error: ", "Invalid API call. Please retry or visit the documentation">>)
  ELSE IF IsRateLimitNote(resp.body)
  THEN Raises([rq EXCEPT !.class = "rate_limit"], "APIError", RateLimitMessage)
  ELSE [rq EXCEPT !.pc = "done", !.outcome = "return", !.class = "table",
                  !.pair = Some(<<GetOrEmpty(resp.body.top_gainers),
                                  GetOrEmpty(resp.body.top_losers)>>)]

\* the faults that can make a difference to the rest of the call: a call
\* that neither stores nor reads after the provider's answer meets none
FaultsFor(rq, d, now, off, resp) ==
  LET plain == get_intraday_data_finish(rq, d, now, off, resp, TRUE, TRUE, TRUE)
  IN IF plain.req.writes # <<>> THEN {"none", "commit", "serialize"}
     ELSE IF Len(plain.req.lookups) > Len(rq.lookups) THEN {"none", "read"}
     ELSE {"none"}

\* ------------------------------------------------------------- actions
Init ==
  /\ db = <<>>
  /\ clock = 0
  /\ utc_offset \in UtcOffsets
  /\ req = [r \in Procs |-> Idle]
  /\ written = <<>>
  /\ analyzer = Unused
  /\ page = Blank

\* a caller enters get_intraday_data: the fresh-tier check, then either the
\* cached table or the provider call
BeginIntraday(r) ==
  /\ req[r].pc = "idle"
  /\ \E symbol \in SymbolInputs, market_type \in Markets, force_refresh \in BOOLEAN,
        fault \in {"none", "read"} :
       req' = [req EXCEPT ![r] = get_intraday_data_begin(db, clock, utc_offset, symbol,
                                                        market_type, force_refresh,
                                                        fault # "read")]
  /\ UNCHANGED <<db, clock, utc_offset, written, analyzer, page>>

\* the provider answers and get_intraday_data runs to its end
RespondIntraday(r) ==
  /\ req[r].pc = "calling"
  /\ req[r].op = "intraday"
  /\ \E resp \in ProviderAnswers(req[r].symbol, req[r].market) :
     \E fault \in FaultsFor(req[r], db, clock, utc_offset, resp) :
       LET out == get_intraday_data_finish(req[r], db, clock, utc_offset, resp,
                                           fault # "commit", fault # "serialize",
                                           fault # "read")
       IN /\ Len(out.db) <= MaxEntries
          /\ req' = [req EXCEPT ![r] = out.req]
          /\ db' = out.db
          /\ written' = IF Len(out.db) > Len(db)
                        THEN Append(written, IF out.db[Len(out.db)].data_json # None
                                             THEN out.req.fetched ELSE None)
                        ELSE written
  /\ UNCHANGED <<clock, utc_offset, analyzer, page>>

BeginDaily(r) ==
  /\ req[r].pc = "idle"
  /\ \E symbol \in SymbolInputs, market_type \in Markets :
       req' = [req EXCEPT ![r] = get_daily_data_begin(symbol, market_type)]
  /\ UNCHANGED <<db, clock, utc_offset, written, analyzer, page>>

RespondDaily(r) ==
  /\ req[r].pc = "calling"
  /\ req[r].op = "daily"
  /\ \E resp \in ProviderAnswers(req[r].symbol, req[r].market) :
       req' = [req EXCEPT ![r] = get_daily_data_finish(req[r], resp)]
  /\ UNCHANGED <<db, clock, utc_offset, written, analyzer, page>>

BeginMovers(r) ==
  /\ req[r].pc = "idle"
  /\ req' = [req EXCEPT ![r] = [Idle EXCEPT !.op = "movers", !.pc = "calling", !.calls = 1]]
  /\ UNCHANGED <<db, clock, utc_offset, written, analyzer, page>>

RespondMovers(r) ==
  /\ req[r].pc = "calling"
  /\ req[r].op = "movers"
  /\ \E resp \in MoversResponses :
       req' = [req EXCEPT ![r] = get_top_gainers_losers_finish(req[r], resp)]
  /\ UNCHANGED <<db, clock, utc_offset, written, analyzer, page>>

\* a caller asks DatabaseManager.get_latest_analysis
GetLatest(r) ==
  /\ req[r].pc = "idle"
  /\ \E symbol \in Symbols :
       req' = [req EXCEPT ![r] = [Idle EXCEPT !.op = "latest", !.symbol = symbol,
                                              !.pc = "done", !.outcome = "return",
                                              !.latest = get_latest_analysis(db, symbol)]]
  /\ UNCHANGED <<db, clock, utc_offset, written, analyzer, page>>

\* the caller takes the result; nothing else follows
Return(r) ==
  /\ req[r].pc = "done"
  /\ req' = [req EXCEPT ![r] = Idle]
  /\ UNCHANGED <<db, clock, utc_offset, written, analyzer, page>>

\* app.py analyze_symbol lines 124-135: the dashboard analyses the table it
\* got and stores the score bundle, without raw data
AnalyzeAndSave(r) ==
  /\ req[r].pc = "done"
  /\ req[r].op = "intraday"
  /\ req[r].outcome = "return"
  /\ req[r].result[1] # <<>>
  /\ \E results \in AnalysisResults, commit_ok \in BOOLEAN :
       LET saved == save_analysis(db, req[r].symbol, results, None, clock, commit_ok, TRUE)
       IN /\ Len(saved.db) <= MaxEntries
          /\ db' = saved.db
          /\ written' = IF Len(saved.db) > Len(db) THEN Append(written, None) ELSE written
  /\ req' = [req EXCEPT ![r] = Idle]
  /\ UNCHANGED <<clock, utc_offset, analyzer, page>>

\* wall-clock time passes, between calls and while a provider call is in
\* flight; a finished call hands its result over at once
TickClock ==
  /\ clock + Tick <= MaxClock
  /\ \A r \in Procs : req[r].pc # "done"
  /\ clock' = clock + Tick
  /\ UNCHANGED <<db, utc_offset, req, written, analyzer, page>>

Next ==
  \/ TickClock
  \/ \E r \in Procs :
       \/ BeginIntraday(r)
       \/ RespondIntraday(r)
       \/ BeginDaily(r)
       \/ RespondDaily(r)
       \/ BeginMovers(r)
       \/ RespondMovers(r)
       \/ GetLatest(r)
       \/ Return(r)
       \/ AnalyzeAndSave(r)

Spec == Init /\ [][Next]_vars

\* ------------------------------ the crypto paths on spelled-out bodies
\* One crypto call against an empty cache, answered with HTTP 200 and a
\* time series whose rows spell out their fields.
InitNormalize ==
  /\ db = <<>>
  /\ clock = 0
  /\ utc_offset \in UtcOffsets
  /\ req = [r \in Procs |-> Idle]
  /\ written = <<>>
  /\ analyzer = Unused
  /\ page = Blank

CryptoIntradayCall(r) ==
  /\ req[r].pc = "idle"
  /\ \E symbol \in Symbols, force_refresh \in BOOLEAN :
       req' = [req EXCEPT ![r] = get_intraday_data_begin(db, clock, utc_offset, symbol,
                                                        "crypto", force_refresh, TRUE)]
  /\ UNCHANGED <<db, clock, utc_offset, written, analyzer, page>>

CryptoIntradayAnswer(r) ==
  /\ req[r].pc = "calling"
  /\ req[r].op = "intraday"
  /\ \E resp \in CellResponses :
       LET out == get_intraday_data_finish(req[r], db, clock, utc_offset, resp,
                                           TRUE, TRUE, TRUE)
       IN /\ req' = [req EXCEPT ![r] = out.req]
          /\ db' = out.db
          /\ written' = IF Len(out.db) > Len(db)
                        THEN Append(written, out.req.fetched)
                        ELSE written
  /\ UNCHANGED <<clock, utc_offset, analyzer, page>>

CryptoDailyCall(r) ==
  /\ req[r].pc = "idle"
  /\ \E symbol \in Symbols :
       req' = [req EXCEPT ![r] = get_daily_data_begin(symbol, "crypto")]
  /\ UNCHANGED <<db, clock, utc_offset, written, analyzer, page>>

CryptoDailyAnswer(r) ==
  /\ req[r].pc = "calling"
  /\ req[r].op = "daily"
  /\ \E resp \in CellResponses :
       req' = [req EXCEPT ![r] = get_daily_data_finish(req[r], resp)]
  /\ UNCHANGED <<db, clock, utc_offset, written, analyzer, page>>

NextNormalize ==
  \E r \in Procs :
    \/ CryptoIntradayCall(r)
    \/ CryptoIntradayAnswer(r)
    \/ CryptoDailyCall(r)
    \/ CryptoDailyAnswer(r)

SpecNormalize == InitNormalize /\ [][NextNormalize]_vars

\* ------------------------------------- two get_intraday_data calls at once
\* The dashboard serves its callbacks from several threads over one
\* DataFetcher: two calls interleave at the cache lookup, the provider call
\* and the write.  The storage layer does not fail here.
Callers == {1, 2}

InitConcurrent ==
  /\ db = <<>>
  /\ clock = 0
  /\ utc_offset = 0
  /\ req = [r \in Callers |-> Idle]
  /\ written = <<>>
  /\ analyzer = Unused
  /\ page = Blank

ConcurrentCall(r) ==
  /\ req[r].pc = "idle"
  /\ \E symbol \in Symbols, force_refresh \in BOOLEAN :
       req' = [req EXCEPT ![r] = get_intraday_data_begin(db, clock, utc_offset, symbol,
                                                        "stock", force_refresh, TRUE)]
  /\ UNCHANGED <<db, clock, utc_offset, written, analyzer, page>>

ConcurrentAnswer(r) ==
  /\ req[r].pc = "calling"
  /\ \E resp \in ProviderAnswers(req[r].symbol, req[r].market) :
       LET out == get_intraday_data_finish(req[r], db, clock, utc_offset, resp,
                                           TRUE, TRUE, TRUE)
       IN /\ Len(out.db) <= MaxEntries
          /\ req' = [req EXCEPT ![r] = out.req]
          /\ db' = out.db
          /\ written' = IF Len(out.db) > Len(db)
                        THEN Append(written, out.req.fetched)
                        ELSE written
  /\ UNCHANGED <<clock, utc_offset, analyzer, page>>

ConcurrentReturn(r) ==
  /\ req[r].pc = "done"
  /\ req' = [req EXCEPT ![r] = Idle]
  /\ UNCHANGED <<db, clock, utc_offset, written, analyzer, page>>

ConcurrentTick ==
  /\ clock + Tick <= MaxClock
  /\ \A r \in Callers : req[r].pc # "done"
  /\ clock' = clock + Tick
  /\ UNCHANGED <<db, utc_offset, req, written, analyzer, page>>

NextConcurrent ==
  \/ ConcurrentTick
  \/ \E r \in Callers :
       \/ ConcurrentCall(r)
       \/ ConcurrentAnswer(r)
       \/ ConcurrentReturn(r)

SpecConcurrent == InitConcurrent /\ [][NextConcurrent]_vars

\* ------------------------------------------- app.py: analyze_symbol
\* <<text, needle>>: `needle in text.lower()` for the texts that occur
LowerHas ==
  { <<"API rate limit reached. Please try again later.", "rate limit">>,
    <<"Our standard API rate limit is 25 requests per day", "rate limit">>,
    <<"Invalid API call; API rate limit", "rate limit">>,
    <<"API Rate Limit exceeded", "rate limit">> }

\* line 140: "rate limit" in str(e).lower()
ContainsLower(msg, needle) == \E i \in 1..Len(msg) : <<msg[i], needle>> \in LowerHas

\* lines 140-152: the level at which an APIError is displayed
IsRateLimitError(msg) == ContainsLower(msg, "rate limit")

\* lines 144 and 27: max_age_minutes of the dashboard's own lookup
DashboardMaxAge == 30

\* display_error, lines 53-60
display_error(pg, message, level) ==
  [pg EXCEPT !.shown = Append(@, [level |-> level, message |-> message])]

ReturnsNone(pg) == [pg EXCEPT !.pc = "done"]

ReturnsPair(pg, data, analysis) ==
  [pg EXCEPT !.pc = "done", !.returned = TRUE, !.data = Some(data), !.analysis = analysis]

\* lines 139-152: except APIError
OnAPIError(rq, d, now, off, read_ok) ==
  IF IsRateLimitError(rq.err.msg)
  THEN LET warned == display_error(Blank,
                       <<"API rate limit reached. Please wait a moment and try again.">>,
                       "warning")
           look == get_cached_data(d, rq.symbol, DashboardMaxAge, now, off, read_ok)
           looked == [warned EXCEPT !.lookups = <<Lookup(DashboardMaxAge, now, look)>>]
       IN IF look.ret # None
          THEN ReturnsPair(display_error(looked, <<"Using cached data due to rate limit">>, "info"),
                           from_dict(look.ret[1]), None)
          ELSE ReturnsNone(looked)
  ELSE ReturnsNone(display_error(Blank, <<"API Error: ">> \o rq.err.msg, "error"))

\* analyze_symbol from the return of get_intraday_data on (lines 124-156):
\* [page: what was displayed and returned, db: the table afterwards].
\* rq is the finished get_intraday_data call, results what analyze()
\* returned, save_ok whether the commit of line 133 is accepted.
analyze_symbol_rest(rq, d, now, off, results, save_ok, read_ok) ==
  IF rq.outcome = "return"
  THEN IF rq.result[1] = <<>>
       THEN [page |-> ReturnsNone(display_error(Blank, <<"No data available for ", rq.symbol>>,
                                                "error")),
             db |-> d]
       ELSE LET saved == save_analysis(d, rq.symbol, results, None, now, save_ok, TRUE)
            IN IF saved.raised
               THEN [page |-> ReturnsNone(display_error(Blank,
                                            <<"An unexpected error occurred: ">>, "error")),
                     db |-> d]
               ELSE [page |-> ReturnsPair(Blank, rq.result[1], Some(results)), db |-> saved.db]
  ELSE IF rq.err.type = "InvalidSymbolError"
  THEN [page |-> ReturnsNone(display_error(Blank, rq.err.msg, "error")), db |-> d]
  ELSE IF rq.err.type = "APIError"
  THEN [page |-> OnAPIError(rq, d, now, off, read_ok), db |-> d]
  ELSE [page |-> ReturnsNone(display_error(Blank, <<"An unexpected error occurred: ">> \o rq.err.msg,
                                           "error")),
        db |-> d]

\* the symbols typed into the sidebar; the empty text is rejected at line 112
DashboardInputs == {"", "AAPL"}

\* what the provider answers the dashboard's call: as before, and a
\* ValueError whose text spells the rate limit in capitals
DashboardAnswers(symbol, market_type) ==
  ProviderAnswers(symbol, market_type)
  \cup { [kind |-> "raise", type |-> "ValueError", text |-> "API Rate Limit exceeded"] }

\* what may go wrong in the storage layer during one run: nothing, the
\* commit of the write-through, the commit of line 133, or a read
DashboardFaults == {"none", "commit", "save", "read"}

\* the history variable: one entry per row added
Recorded(w, d0, d1, fetched) ==
  w \o [i \in 1..(Len(d1) - Len(d0)) |->
          IF d1[Len(d0) + i].data_json # None THEN fetched ELSE None]

InitDashboard ==
  /\ db = <<>>
  /\ clock = 0
  /\ utc_offset = 0
  /\ req = [r \in Procs |-> Idle]
  /\ written = <<>>
  /\ analyzer = Unused
  /\ page = Blank

\* the user presses Analyze: analyze_symbol runs up to the provider call,
\* or to its end when no provider call is made
DashboardRun(r) ==
  /\ page.pc = "blank"
  /\ \E symbol \in DashboardInputs, force_refresh \in BOOLEAN, results \in AnalysisResults,
        fault \in {"none", "save", "read"} :
       IF symbol = ""
       THEN /\ page' = ReturnsNone(display_error(Blank, <<"Please enter a symbol">>, "error"))
            /\ UNCHANGED <<db, req, written>>
       ELSE LET rq == get_intraday_data_begin(db, clock, utc_offset, symbol, "stock",
                                              force_refresh, fault # "read")
                rest == analyze_symbol_rest(rq, db, clock, utc_offset, results,
                                            fault # "save", fault # "read")
            IN IF rq.pc = "done"
               THEN /\ Len(rest.db) <= 2 * MaxEntries
                    /\ req' = [req EXCEPT ![r] = rq]
                    /\ page' = rest.page
                    /\ db' = rest.db
                    /\ written' = Recorded(written, db, rest.db, None)
               ELSE /\ req' = [req EXCEPT ![r] = rq]
                    /\ page' = [Blank EXCEPT !.pc = "running"]
                    /\ UNCHANGED <<db, written>>
  /\ UNCHANGED <<clock, utc_offset, analyzer>>

\* the provider answers; get_intraday_data and analyze_symbol run to their end
DashboardAnswer(r) ==
  /\ page.pc = "running"
  /\ req[r].pc = "calling"
  /\ \E resp \in DashboardAnswers(req[r].symbol, req[r].market), results \in AnalysisResults,
        fault \in DashboardFaults :
       LET out == get_intraday_data_finish(req[r], db, clock, utc_offset, resp,
                                           fault # "commit", TRUE, fault # "read")
           rest == analyze_symbol_rest(out.req, out.db, clock, utc_offset, results,
                                       fault # "save", fault # "read")
       IN /\ Len(rest.db) <= 2 * MaxEntries
          /\ req' = [req EXCEPT ![r] = out.req]
          /\ page' = rest.page
          /\ db' = rest.db
          /\ written' = Recorded(written, db, rest.db, out.req.fetched)
  /\ UNCHANGED <<clock, utc_offset, analyzer>>

\* the page is rendered; the next interaction starts a new run
DashboardShown(r) ==
  /\ page.pc = "done"
  /\ page' = Blank
  /\ req' = [req EXCEPT ![r] = Idle]
  /\ UNCHANGED <<db, clock, utc_offset, written, analyzer>>

DashboardTick ==
  /\ clock + Tick <= MaxClock
  /\ page.pc # "done"
  /\ clock' = clock + Tick
  /\ UNCHANGED <<db, utc_offset, req, written, analyzer, page>>

NextDashboard ==
  \/ DashboardTick
  \/ \E r \in Procs :
       \/ DashboardRun(r)
       \/ DashboardAnswer(r)
       \/ DashboardShown(r)

SpecDashboard == InitDashboard /\ [][NextDashboard]_vars

\* ------------------------------- technical_analysis.py: the analyzer
\* A table is the sequence of its rows; the columns of a row are the domain
\* of its `val`.  The values the indicator library computes (ta's MACD and
\* RSIIndicator, pandas' ewm) are inputs: any float or NaN.
VolumeWindow == 5

\* df[name] = column: the column is added to, or replaced in, every row
SetColumn(data, name, column) ==
  [i \in 1..Len(data) |->
     [data[i] EXCEPT !.val = [c \in DOMAIN @ \cup {name} |->
                                IF c = name THEN column[i] ELSE @[c]]]]

\* mutant: a comparison with NaN counts as true
Gt_NaNTrue(a, b) == a.num = None \/ b.num = None \/ a.num[1] > b.num[1]

\* a comparison with NaN is false
Gt(a, b) == a.num # None /\ b.num # None /\ a.num[1] > b.num[1]

Between(lo, x, hi) == x.num # None /\ lo <= x.num[1] /\ x.num[1] <= hi

\* macd.macd_diff(): macd - macd_signal
Minus(a, b) ==
  IF a.num = None \/ b.num = None THEN NaN ELSE Float64(a.num[1] - b.num[1])

RECURSIVE Sum(_)
Sum(cells) == IF cells = <<>> THEN 0 ELSE Head(cells).num[1] + Sum(Tail(cells))

\* line 64: data['5. volume'].rolling(window=5).mean().iloc[-1], as the sum
\* of the window (None: fewer than 5 rows, or a NaN in the window)
LastWindowSum(data) ==
  LET n == Len(data)
      window == [i \in 1..VolumeWindow |-> data[n - VolumeWindow + i].val["5. volume"]]
  IN IF n < VolumeWindow THEN None
     ELSE IF \E i \in 1..VolumeWindow : window[i].num = None THEN None
     ELSE Some(Sum(window))

\* line 65: latest['5. volume'] > vol_avg
AboveAverage(volume, window_sum) ==
  /\ volume.num # None
  /\ window_sum # None
  /\ VolumeWindow * volume.num[1] > window_sum[1]

\* line 53 and lines 87-91: .iloc[-1], the last row in row order
iloc_last(data) == data[Len(data)]

\* mutant: the RSI term is left out
calculate_score_NoRsi(data) ==
  LET latest == iloc_last(data).val
  IN (IF Gt(latest["macd"], latest["macd_signal"]) THEN 25 ELSE 0)
     + (IF Gt(latest["ema_short"], latest["ema_long"]) THEN 25 ELSE 0)
     + (IF AboveAverage(latest["5. volume"], LastWindowSum(data)) THEN 20 ELSE 0)
     + (IF Gt(latest["4. close"], latest["ema_short"]) THEN 15 ELSE 0)

\* TechnicalAnalyzer.calculate_score, lines 52-76
calculate_score(data) ==
  LET latest == iloc_last(data).val
  IN (IF Gt(latest["macd"], latest["macd_signal"]) THEN 25 ELSE 0)
     + (IF Gt(latest["ema_short"], latest["ema_long"]) THEN 25 ELSE 0)
     + (IF AboveAverage(latest["5. volume"], LastWindowSum(data)) THEN 20 ELSE 0)
     + (IF Gt(latest["4. close"], latest["ema_short"]) THEN 15 ELSE 0)
     + (IF Between(40, latest["rsi"], 60) THEN 15 ELSE 0)

\* calculate_macd, lines 14-23: three columns are assigned to self.data
calculate_macd(data, macd, macd_signal) ==
  SetColumn(SetColumn(SetColumn(data, "macd", macd), "macd_signal", macd_signal),
            "macd_diff", [i \in 1..Len(data) |-> Minus(macd[i], macd_signal[i])])

\* calculate_ema, lines 27-31
calculate_ema(data, ema_short, ema_long) ==
  SetColumn(SetColumn(data, "ema_short", ema_short), "ema_long", ema_long)

\* calculate_rsi, lines 35-40
calculate_rsi(data, rsi) == SetColumn(data, "rsi", rsi)

\* lines 85-92: the dict analyze() returns
ResultsOf(data) ==
  [ score |-> calculate_score(data),
    macd |-> iloc_last(data).val["macd"],
    macd_signal |-> iloc_last(data).val["macd_signal"],
    ema_short |-> iloc_last(data).val["ema_short"],
    ema_long |-> iloc_last(data).val["ema_long"],
    rsi |-> iloc_last(data).val["rsi"] ]

\* TechnicalAnalyzer(data), lines 8-10: self.data is the caller's table
\* itself, not a copy.  `data` is that one object, `given` what it held
\* when it was handed over.
TechnicalAnalyzer(data) ==
  [pc |-> "constructed", data |-> data, given |-> data, results |-> None]

\* analyze(), lines 78-92; lib: the columns the indicator library computes
analyze(self, lib) ==
  LET data == calculate_rsi(calculate_ema(calculate_macd(self.data, lib.macd, lib.macd_signal),
                                          lib.ema_short, lib.ema_long),
                            lib.rsi)
  IN [self EXCEPT !.pc = "analyzed", !.data = data, !.results = Some(ResultsOf(data))]

\* the tables handed to the analyzer: what crypto get_intraday_data returns
\* for a series of n dates (most recent first), and the same rows oldest
\* first (the order of the analyzer's tests)
Reverse(df) == [i \in 1..Len(df) |-> df[Len(df) + 1 - i]]

FetchedTables ==
  { NormalizeCells([i \in 1..n |-> <<DateKey(i), Fields("usd", i)>>], TRUE).df :
      n \in 1..(VolumeWindow + Spare) }

AnalyzerTables == FetchedTables \cup { Reverse(df) : df \in FetchedTables }

\* a column of the indicator library: `last` in the last row, another
\* value in every row before it
LibraryColumn(n, last) ==
  [i \in 1..n |-> IF i = n \/ last.num = None THEN last ELSE Float64(last.num[1] + 1)]

MacdValues == {NaN, Float64(1), Float64(2)}
EmaValues == {NaN, Float64(0), Float64(1), Float64(1000)}
RsiValues == {NaN, Float64(39), Float64(40), Float64(60), Float64(61)}

LibraryOutputs(n) ==
  { [ macd |-> LibraryColumn(n, m), macd_signal |-> LibraryColumn(n, g),
      ema_short |-> LibraryColumn(n, s), ema_long |-> LibraryColumn(n, l),
      rsi |-> LibraryColumn(n, x) ] :
      m \in MacdValues, g \in MacdValues, s \in EmaValues, l \in EmaValues,
      x \in RsiValues }

InitAnalyze ==
  /\ db = <<>>
  /\ clock = 0
  /\ utc_offset = 0
  /\ req = [r \in Procs |-> Idle]
  /\ written = <<>>
  /\ analyzer = Unused
  /\ page = Blank

\* app.py line 128: analyzer = TechnicalAnalyzer(data)
Construct ==
  /\ analyzer.pc = "unused"
  /\ \E data \in AnalyzerTables : analyzer' = TechnicalAnalyzer(data)
  /\ UNCHANGED <<db, clock, utc_offset, req, written, page>>

\* app.py line 129: analysis_results = analyzer.analyze()
Analyze ==
  /\ analyzer.pc = "constructed"
  /\ \E lib \in LibraryOutputs(Len(analyzer.data)) : analyzer' = analyze(analyzer, lib)
  /\ UNCHANGED <<db, clock, utc_offset, req, written, page>>

NextAnalyze == Construct \/ Analyze

SpecAnalyze == InitAnalyze /\ [][NextAnalyze]_vars

\* ---------------------------------------------------------- properties
MaxAges(rq) == [i \in 1..Len(rq.lookups) |-> rq.lookups[i].max_age]

FreshServed(rq) ==
  /\ rq.op = "intraday"
  /\ ~rq.force_refresh
  /\ Len(rq.lookups) >= 1
  /\ rq.lookups[1].max_age = FreshMinutes
  /\ rq.lookups[1].ret # None

\* C1: a get_intraday_data call with force_refresh false whose 5-minute
\* lookup returned a table ends at once: it returns that table (as
\* DataFrame.from_dict builds it), has made no provider call and no further
\* lookup.
C1_FreshHitServedFromCache ==
  \A r \in Procs :
    FreshServed(req[r])
    => /\ req[r].pc = "done"
       /\ req[r].outcome = "return"
       /\ req[r].result = Some(from_dict(req[r].lookups[1].ret[1]))
       /\ req[r].calls = 0
       /\ Len(req[r].lookups) = 1

C1_Witness ==
  \E r \in Procs : FreshServed(req[r]) /\ req[r].pc = "done" /\ req[r].market = "crypto"

\* C2: a get_intraday_data call with force_refresh true never makes the
\* 5-minute lookup and always calls the provider, whatever the cache holds.
C2_ForceRefreshBypassesCache ==
  \A r \in Procs :
    (req[r].op = "intraday" /\ req[r].force_refresh)
    => /\ \A i \in 1..Len(req[r].lookups) : req[r].lookups[i].max_age # FreshMinutes
       /\ req[r].calls = 1

C2_Witness ==
  \E r \in Procs :
    /\ req[r].op = "intraday" /\ req[r].force_refresh /\ req[r].pc = "calling"
    /\ get_cached_data(db, req[r].symbol, FreshMinutes, clock, utc_offset, TRUE).ret # None

\* the rows for `symbol` that carry a table and were stored at most
\* max_age minutes ago
StoredWithin(symbol, max_age) ==
  { i \in 1..Len(db) : /\ db[i].symbol = symbol
                       /\ db[i].data_json # None
                       /\ clock - db[i].timestamp <= max_age }

RateLimited(rq) ==
  /\ rq.op = "intraday"
  /\ rq.pc = "done"
  /\ ~rq.force_refresh
  /\ rq.class = "rate_limit"

\* C3: a get_intraday_data call with force_refresh false whose 5-minute
\* lookup missed and whose provider call was rate-limited, while a row with
\* a table no older than 15 minutes exists (and no read of the table
\* failed), makes exactly the lookups 5 then 15 and returns that stale table
\* without raising.
C3_RateLimitServesStaleEntry ==
  \A r \in Procs :
    ( /\ RateLimited(req[r])
      /\ req[r].lookups[1].ret = None
      /\ \A i \in 1..Len(req[r].lookups) : ~req[r].lookups[i].failed
      /\ StoredWithin(req[r].symbol, StaleMinutes) # {} )
    => /\ MaxAges(req[r]) = <<FreshMinutes, StaleMinutes>>
       /\ req[r].outcome = "return"
       /\ \E i \in StoredWithin(req[r].symbol, StaleMinutes) :
            req[r].result = Some(from_dict(PyEval(db[i].data_json[1])))

\* C4: a get_intraday_data call with force_refresh false whose provider
\* call was rate-limited while no row with a table for the symbol is at
\* most 15 minutes old raises APIError with "rate limit" in its message,
\* after exactly the lookups 5 then 15, and writes nothing.
C4_RateLimitWithoutEntryRaises ==
  \A r \in Procs :
    ( /\ RateLimited(req[r])
      /\ StoredWithin(req[r].symbol, StaleMinutes) = {} )
    => /\ req[r].outcome = "raise"
       /\ req[r].err.type = "APIError"
       /\ Contains(req[r].err.msg, "rate limit")
       /\ MaxAges(req[r]) = <<FreshMinutes, StaleMinutes>>
       /\ req[r].writes = <<>>

\* C5: a get_intraday_data call makes at most one provider call and at most
\* two cache reads (5 then 15); once the provider's answer is classified the
\* call is over (no second provider call), and a 15-minute read is made only
\* by a call whose own provider call was classified as rate-limited.
C5_OneCallTwoReads ==
  \A r \in Procs :
    req[r].op = "intraday"
    => /\ req[r].calls <= 1
       /\ Len(req[r].lookups) <= 2
       /\ req[r].pc \in {"calling", "done"}
       /\ req[r].pc = "calling" => req[r].calls = 1 /\ req[r].class = "none"
       /\ req[r].class # "none" => req[r].pc = "done" /\ req[r].calls = 1
       /\ Len(req[r].lookups) = 2 => MaxAges(req[r]) = <<FreshMinutes, StaleMinutes>>
       /\ \A i \in 1..Len(req[r].lookups) :
            req[r].lookups[i].max_age = StaleMinutes
            => /\ i = Len(req[r].lookups)
               /\ req[r].calls = 1
               /\ req[r].class = "rate_limit"
               /\ req[r].pc = "done"

C5_Witness ==
  \E r \in Procs :
    /\ req[r].op = "intraday" /\ req[r].pc = "done"
    /\ Len(req[r].lookups) = 2 /\ req[r].calls = 1
    /\ req[r].outcome = "raise"

Fetched(rq) == rq.op = "intraday" /\ rq.pc = "done" /\ rq.fetched # None

\* the call inserted exactly one row, for its symbol, holding the fetched
\* table and the placeholder bundle, and returned the fetched table
WroteThrough(rq) ==
  /\ Len(rq.writes) = 1
  /\ rq.writes[1] \in 1..Len(db)
  /\ db[rq.writes[1]] = StockAnalysis(rq.symbol, clock, Placeholder,
                                       Some(PyStr(Processed(to_dict(rq.fetched[1])))))
  /\ written[rq.writes[1]] = rq.fetched
  /\ rq.outcome = "return"
  /\ rq.result = rq.fetched

\* C6 as stated: every get_intraday_data call that obtains a non-empty
\* table from the provider inserts exactly one row for the symbol with that
\* table and the placeholder bundle, and returns that table.
C6_AlwaysWritesThrough ==
  \A r \in Procs : Fetched(req[r]) => WroteThrough(req[r])

\* the call inserted exactly one row, for its symbol, with the placeholder
\* bundle but no table, and returned the fetched table
WroteWithoutPayload(rq) ==
  /\ Len(rq.writes) = 1
  /\ rq.writes[1] \in 1..Len(db)
  /\ db[rq.writes[1]] = StockAnalysis(rq.symbol, clock, Placeholder, None)
  /\ written[rq.writes[1]] = None
  /\ rq.outcome = "return"
  /\ rq.result = rq.fetched

\* C6 amended: every get_intraday_data call that obtains a non-empty table
\* from the provider either inserts exactly one row for the symbol with the
\* placeholder bundle and returns that table, the row holding the table
\* unless its serialisation failed, or, when the commit of the row fails,
\* inserts nothing and raises DataFetcherError.
C6_WritesThroughOrCommitFails ==
  \A r \in Procs :
    Fetched(req[r])
    => IF req[r].outcome = "return"
       THEN WroteThrough(req[r]) \/ WroteWithoutPayload(req[r])
       ELSE /\ req[r].writes = <<>>
            /\ req[r].err.type = "DataFetcherError"
            /\ Contains(req[r].err.msg, "commit failed")

C6_Witness ==
  \E r \in Procs :
    /\ Fetched(req[r]) /\ req[r].outcome = "return" /\ req[r].market = "crypto"
    /\ Len(db) = 2

\* C7: when the provider call succeeds with an absent or empty table,
\* get_intraday_data and get_daily_data raise a DataFetcherError that
\* reports "No data returned"; no empty table is returned or stored.
C7_EmptyTableRaisesNoData ==
  /\ \A r \in Procs :
       (req[r].op \in {"intraday", "daily"} /\ req[r].pc = "done" /\ req[r].class = "empty")
       => /\ req[r].outcome = "raise"
          /\ IsA(req[r].err.type, "DataFetcherError")
          /\ Contains(req[r].err.msg, "No data returned")
          /\ req[r].writes = <<>>
  /\ \A r \in Procs :
       (req[r].op \in {"intraday", "daily"} /\ req[r].outcome = "return")
       => req[r].result # Some(<<>>)
  /\ \A i \in 1..Len(written) : written[i] # Some(<<>>)

\* C8: get_cached_data(symbol, m) returns a table only from a row stored at
\* most m minutes before the lookup, and returns None when the newest row of
\* the symbol is older than m minutes, for every host UTC offset.
C8_LookupWithinMaxAge ==
  \A symbol \in Symbols, m \in {FreshMinutes, StaleMinutes} :
    LET look == get_cached_data(db, symbol, m, clock, utc_offset, TRUE)
        newest == get_latest_analysis(db, symbol)
    IN /\ look.hit # 0 => clock - db[look.hit].timestamp <= m
       /\ (newest # 0 /\ clock - db[newest].timestamp > m) => look.ret = None

\* C9: the cache table is append-only: every step leaves every row already
\* stored in place and unchanged, and changes the table, if at all, by
\* adding one row at its end; lookups add nothing.
C9_AppendOnly ==
  [][ /\ Len(db') >= Len(db)
      /\ SubSeq(db', 1, Len(db)) = db
      /\ db' # db => Len(db') = Len(db) + 1
      /\ \A r \in Procs :
           (req'[r] # req[r] /\ Len(req'[r].writes) = Len(req[r].writes)
              /\ req'[r].pc # "idle")
           => db' = db ]_vars

\* a row older than the stale tier is still stored after a lookup missed
C9_Witness ==
  /\ Len(db) = 2
  /\ clock - db[1].timestamp > StaleMinutes
  /\ \E r \in Procs :
       /\ req[r].op = "intraday" /\ req[r].pc = "done"
       /\ req[r].symbol = db[1].symbol
       /\ Len(req[r].lookups) = 2 /\ req[r].lookups[2].ret = None

\* C10: a get_intraday_data call served from the 5-minute tier returns a
\* table equal to the one the write-through stored: same index values, as
\* timestamps, same row order, same values.
C10_RoundTrip ==
  \A r \in Procs :
    (FreshServed(req[r]) /\ req[r].pc = "done")
    => req[r].result = written[req[r].lookups[1].hit]

\* ------------------------------------- properties of error classification
\* These are stated over a call that waits for the provider: for every
\* answer the provider may give and every storage fault, what the rest of
\* the handler does with it.
Calling(r, op) == req[r].pc = "calling" /\ req[r].op = op

IntradayEnd(r, resp, fault) ==
  get_intraday_data_finish(req[r], db, clock, utc_offset, resp,
                           fault # "commit", fault # "serialize", fault # "read")

DailyEnd(r, resp) == get_daily_data_finish(req[r], resp)

MoversEnd(r, resp) == get_top_gainers_losers_finish(req[r], resp)

Body200(resp) == resp.kind = "http" /\ resp.status = "200"

\* C11: an HTTP-200 body with the key "Error Message" makes crypto
\* get_intraday_data, crypto get_daily_data and get_top_gainers_losers raise
\* InvalidSymbolError.
C11_ErrorMessageIsInvalidSymbol ==
  \A r \in Procs :
    /\ (Calling(r, "intraday") /\ req[r].market = "crypto")
       => \A resp \in ProviderAnswers(req[r].symbol, "crypto"), fault \in Faults :
            (Body200(resp) /\ resp.body.error_message)
            => LET end == IntradayEnd(r, resp, fault).req
               IN end.outcome = "raise" /\ end.err.type = "InvalidSymbolError"
    /\ (Calling(r, "daily") /\ req[r].market = "crypto")
       => \A resp \in ProviderAnswers(req[r].symbol, "crypto") :
            (Body200(resp) /\ resp.body.error_message)
            => /\ DailyEnd(r, resp).outcome = "raise"
               /\ DailyEnd(r, resp).err.type = "InvalidSymbolError"
    /\ Calling(r, "movers")
       => \A resp \in MoversResponses :
            (Body200(resp) /\ resp.body.error_message)
            => /\ MoversEnd(r, resp).outcome = "raise"
               /\ MoversEnd(r, resp).err.type = "InvalidSymbolError"

\* the provider reports an invalid symbol: crypto by "Error Message" or an
\* "Information" text with "Invalid API call", stock by a ValueError with
\* "Invalid API call"
ReportsInvalidSymbol(resp, market_type) ==
  IF market_type = "crypto"
  THEN /\ Body200(resp)
       /\ \/ resp.body.error_message
          \/ /\ resp.body.information # "absent"
             /\ Has(resp.body.information, "Invalid API call")
  ELSE /\ resp.kind = "raise"
       /\ resp.type = "ValueError"
       /\ Has(resp.text, "Invalid API call")

MentionsLimit(text) ==
  text # "absent" /\ (Has(text, "rate limit") \/ Has(text, "frequency"))

\* an HTTP-200 body without time series and without invalid-symbol marker
\* whose "Note" or "Information" mentions a rate or per-day limit
LimitBody(resp) ==
  /\ Body200(resp)
  /\ resp.body.series = None
  /\ ~resp.body.error_message
  /\ ~(resp.body.information # "absent" /\ Has(resp.body.information, "Invalid API call"))
  /\ MentionsLimit(resp.body.note) \/ MentionsLimit(resp.body.information)

\* C13: crypto get_intraday_data treats such a body as a provider rate
\* limit: it makes the 15-minute lookup and returns its table or, on a miss,
\* raises APIError("API rate limit reached ..."); never InvalidSymbolError,
\* never an unexpected-format error.
C13_LimitTextIsRateLimit ==
  \A r \in Procs :
    (Calling(r, "intraday") /\ req[r].market = "crypto")
    => \A resp \in ProviderAnswers(req[r].symbol, "crypto"), fault \in Faults :
         LimitBody(resp)
         => LET end == IntradayEnd(r, resp, fault).req
            IN /\ Len(end.lookups) = Len(req[r].lookups) + 1
               /\ end.lookups[Len(end.lookups)].max_age = StaleMinutes
               /\ end.outcome = "raise"
                  => /\ end.err.type = "APIError"
                     /\ Contains(end.err.msg, "API rate limit")

\* msg has the fragment a directly followed by b
Follows(msg, a, b) == \E i \in 1..(Len(msg) - 1) : msg[i] = a /\ msg[i + 1] = b

\* an HTTP-200 body with none of the keys "Time Series (Digital Currency
\* Daily)", "Error Message", "Information", "Note"
BareBody(resp) ==
  /\ Body200(resp)
  /\ resp.body.series = None
  /\ ~resp.body.error_message
  /\ resp.body.information = "absent"
  /\ resp.body.note = "absent"

UnexpectedFormatError(rq, symbol) ==
  /\ rq.pc = "done"
  /\ rq.outcome = "raise"
  /\ rq.err.type = "DataFetcherError"
  /\ Follows(rq.err.msg, "Unexpected API response format for ", symbol)
  /\ rq.result = None
  /\ rq.writes = <<>>

\* C14: such a body makes crypto get_intraday_data and get_daily_data raise
\* a DataFetcherError of the base class whose message has "Unexpected API
\* response format for <symbol>"; no cache lookup follows, nothing is written.
C14_BareBodyIsUnexpectedFormat ==
  \A r \in Procs :
    /\ (Calling(r, "intraday") /\ req[r].market = "crypto")
       => \A resp \in ProviderAnswers(req[r].symbol, "crypto"), fault \in Faults :
            BareBody(resp)
            => LET end == IntradayEnd(r, resp, fault)
               IN /\ UnexpectedFormatError(end.req, req[r].symbol)
                  /\ end.req.lookups = req[r].lookups
                  /\ end.db = db
    /\ (Calling(r, "daily") /\ req[r].market = "crypto")
       => \A resp \in ProviderAnswers(req[r].symbol, "crypto") :
            BareBody(resp)
            => /\ UnexpectedFormatError(DailyEnd(r, resp), req[r].symbol)
               /\ DailyEnd(r, resp).lookups = <<>>

C14_Witness ==
  \E r \in Procs :
    /\ req[r].op \in {"intraday", "daily"} /\ req[r].market = "crypto"
    /\ req[r].class = "unexpected"
    /\ UnexpectedFormatError(req[r], req[r].symbol)
    /\ Len(db) > 0

ErrorStatus(resp) == resp.kind = "http" /\ resp.status # "200"

\* C15: a status other than 200 (429 included) makes crypto
\* get_intraday_data, crypto get_daily_data and get_top_gainers_losers raise
\* APIError, the same whatever the body holds; get_intraday_data makes no
\* further cache lookup and writes nothing.
C15_ErrorStatusRaisesAPIError ==
  \A r \in Procs :
    /\ (Calling(r, "intraday") /\ req[r].market = "crypto")
       => \A resp \in ProviderAnswers(req[r].symbol, "crypto"), fault \in Faults :
            ErrorStatus(resp)
            => LET end == IntradayEnd(r, resp, fault)
               IN /\ end.req.outcome = "raise"
                  /\ end.req.err.type = "APIError"
                  /\ end.req.lookups = req[r].lookups
                  /\ end.req.writes = <<>>
                  /\ end.db = db
                  /\ \A other \in ProviderAnswers(req[r].symbol, "crypto") :
                       (ErrorStatus(other) /\ other.status = resp.status)
                       => IntradayEnd(r, other, fault) = end
    /\ (Calling(r, "daily") /\ req[r].market = "crypto")
       => \A resp \in ProviderAnswers(req[r].symbol, "crypto") :
            ErrorStatus(resp)
            => /\ DailyEnd(r, resp).outcome = "raise"
               /\ DailyEnd(r, resp).err.type = "APIError"
               /\ \A other \in ProviderAnswers(req[r].symbol, "crypto") :
                    (ErrorStatus(other) /\ other.status = resp.status)
                    => DailyEnd(r, other) = DailyEnd(r, resp)
    /\ Calling(r, "movers")
       => \A resp \in MoversResponses :
            ErrorStatus(resp)
            => /\ MoversEnd(r, resp).outcome = "raise"
               /\ MoversEnd(r, resp).err.type = "APIError"
               /\ \A other \in MoversResponses :
                    (ErrorStatus(other) /\ other.status = resp.status)
                    => MoversEnd(r, other) = MoversEnd(r, resp)

\* an error status ended a crypto call although a cached table of the
\* symbol was within the stale tier
C15_Witness ==
  \E r \in Procs :
    /\ req[r].op = "intraday" /\ req[r].pc = "done" /\ req[r].market = "crypto"
    /\ req[r].class = "http_status"
    /\ req[r].err.type = "APIError"
    /\ get_cached_data(db, req[r].symbol, StaleMinutes, clock, utc_offset, TRUE).ret # None

\* a connection-level failure of the provider call: the builtin
\* ConnectionError out of the TimeSeries call, requests' ConnectionError or
\* Timeout out of requests.get
ConnectionFailure(resp, market_type) ==
  /\ resp.kind = "raise"
  /\ IF market_type = "stock"
     THEN resp.type = "ConnectionError"
     ELSE resp.type \in {"requests.ConnectionError", "requests.Timeout"}

\* C16: a connection-level failure of the provider call reaches the caller
\* as APIError on the stock path, on the crypto paths of get_intraday_data
\* and get_daily_data, and in get_top_gainers_losers.
C16_ConnectionFailureIsAPIError ==
  \A r \in Procs :
    /\ Calling(r, "intraday")
       => \A resp \in ProviderAnswers(req[r].symbol, req[r].market), fault \in Faults :
            ConnectionFailure(resp, req[r].market)
            => LET end == IntradayEnd(r, resp, fault).req
               IN end.outcome = "raise" /\ end.err.type = "APIError"
    /\ Calling(r, "daily")
       => \A resp \in ProviderAnswers(req[r].symbol, req[r].market) :
            ConnectionFailure(resp, req[r].market)
            => /\ DailyEnd(r, resp).outcome = "raise"
               /\ DailyEnd(r, resp).err.type = "APIError"
    /\ Calling(r, "movers")
       => \A resp \in MoversResponses :
            ConnectionFailure(resp, "movers")
            => /\ MoversEnd(r, resp).outcome = "raise"
               /\ MoversEnd(r, resp).err.type = "APIError"

\* what the try block of the call raises, before any except clause
Inner(rq, resp, intraday) ==
  IF rq.market = "crypto"
  THEN CryptoBranch(resp, rq.symbol, intraday)
  ELSE StockBranch(resp, rq.symbol)

Typed(rq) == rq.outcome = "raise" => IsA(rq.err.type, "DataFetcherError")

\* an InvalidSymbolError or APIError raised in the try block leaves the
\* call as what it is
KindKept(inner, rq) ==
  (inner.t = "raise" /\ inner.type \in {"InvalidSymbolError", "APIError"})
  => rq.outcome = "raise" /\ rq.err.type = inner.type

\* C17: whatever makes get_intraday_data, get_daily_data or
\* get_top_gainers_losers fail, the caller gets a DataFetcherError
\* (InvalidSymbolError, APIError or the base class); an InvalidSymbolError
\* or APIError raised inside the call arrives with its kind unchanged.
C17_FailuresAreTyped ==
  \A r \in Procs :
    /\ Typed(req[r])
    /\ Calling(r, "intraday")
       => \A resp \in ProviderAnswers(req[r].symbol, req[r].market), fault \in Faults :
            LET end == IntradayEnd(r, resp, fault).req
            IN Typed(end) /\ KindKept(Inner(req[r], resp, TRUE), end)
    /\ Calling(r, "daily")
       => \A resp \in ProviderAnswers(req[r].symbol, req[r].market) :
            LET end == DailyEnd(r, resp)
            IN Typed(end) /\ KindKept(Inner(req[r], resp, FALSE), end)
    /\ Calling(r, "movers")
       => \A resp \in MoversResponses : Typed(MoversEnd(r, resp))

\* an exception of no class of the fetcher, raised by the provider library,
\* reached the caller as DataFetcherError
C17_Witness ==
  \E r \in Procs :
    /\ req[r].pc = "done" /\ req[r].outcome = "raise"
    /\ req[r].class = "provider_exception"
    /\ req[r].err.type = "DataFetcherError"

\* C18: a failure while reading a stored table makes get_cached_data return
\* None and get_intraday_data goes on to the provider; a failure to
\* serialise the table during the write-through still lets
\* get_intraday_data return the fetched table.
C18_CacheFaultsAreNotFatal ==
  \A r \in Procs :
    /\ req[r].op = "intraday"
       => /\ \A i \in 1..Len(req[r].lookups) :
               req[r].lookups[i].failed
               => req[r].lookups[i].ret = None /\ req[r].lookups[i].hit = 0
          /\ (Len(req[r].lookups) >= 1 /\ req[r].lookups[1].failed)
             => req[r].calls = 1
    /\ Calling(r, "intraday")
       => \A resp \in ProviderAnswers(req[r].symbol, req[r].market) :
            LET end == IntradayEnd(r, resp, "serialize")
            IN end.req.fetched # None
               => /\ end.req.outcome = "return"
                  /\ end.req.result = end.req.fetched
                  /\ Len(end.db) = Len(db) + 1
                  /\ end.db[Len(end.db)].data_json = None

\* a call whose fresh-tier read failed fetched a table, stored a row
\* without payload and returned the table
C18_Witness ==
  \E r \in Procs :
    /\ req[r].op = "intraday" /\ req[r].pc = "done"
    /\ req[r].lookups # <<>> /\ req[r].lookups[1].failed
    /\ req[r].fetched # None
    /\ Len(req[r].writes) = 1
    /\ db[req[r].writes[1]].data_json = None
    /\ req[r].outcome = "return"
    /\ req[r].result = req[r].fetched

\* C19: a get_intraday_data or get_daily_data call with a blank symbol that
\* is not served from the fresh tier raises InvalidSymbolError and makes no
\* provider call.
C19_BlankSymbolRejectedBeforeCall ==
  \A r \in Procs :
    ( /\ req[r].op \in {"intraday", "daily"}
      /\ req[r].symbol \in SymbolInputs \ Symbols
      /\ ~FreshServed(req[r]) )
    => /\ req[r].calls = 0
       /\ req[r].pc = "done"
       /\ req[r].outcome = "raise"
       /\ req[r].err.type = "InvalidSymbolError"

\* strictly descending index: most recent first, no timestamp twice
SortedDescending(df) ==
  \A i \in 1..(Len(df) - 1) : df[i].idx.at > df[i + 1].idx.at

\* C20: every table get_intraday_data or get_daily_data returns has unique
\* timestamps in descending order, whatever order the provider sent.
C20_ReturnedTablesSortedDescending ==
  \A r \in Procs :
    (req[r].op \in {"intraday", "daily"} /\ req[r].outcome = "return")
    => SortedDescending(req[r].result[1])

\* -------------------------------- properties of the crypto normaliser
\* These are stated over a crypto call that waits for the provider, for
\* every HTTP-200 body that has the time series and no other key.
SeriesOf(resp) == resp.body.series[1]

Dates(series) == { series[i][1].at : i \in 1..Len(series) }

\* every row has the five USD fields, and every field of every row spells
\* a number
WellFormed(series) ==
  \A i \in 1..Len(series) :
    /\ UsdFields \subseteq DOMAIN series[i][2]
    /\ \A f \in DOMAIN series[i][2] : series[i][2][f].num # None

\* the k greatest of the dates
Greatest(dates, k) == { d \in dates : Cardinality({ e \in dates : e > d }) < k }

Min(a, b) == IF a < b THEN a ELSE b

\* C21: crypto get_intraday_data on a well-formed time series of n >= 1
\* rows returns, and stores in the cache, a table of min(n, 100) rows: the
\* rows of the min(n, 100) greatest dates, in descending order; crypto
\* get_daily_data returns all n rows.
C21_IntradayKeepsNewestHundred ==
  \A r \in Procs :
    /\ (Calling(r, "intraday") /\ req[r].market = "crypto")
       => \A resp \in CellResponses :
            (WellFormed(SeriesOf(resp)) /\ SeriesOf(resp) # <<>>)
            => LET end == IntradayEnd(r, resp, "none")
                   n == Len(SeriesOf(resp))
                   df == end.req.result[1]
               IN /\ end.req.outcome = "return"
                  /\ Len(df) = Min(n, CryptoHead)
                  /\ SortedDescending(df)
                  /\ { df[i].idx.at : i \in 1..Len(df) }
                       = Greatest(Dates(SeriesOf(resp)), CryptoHead)
                  /\ Len(end.db) = Len(db) + 1
                  /\ end.db[Len(end.db)].data_json = Some(PyStr(Processed(to_dict(df))))
    /\ (Calling(r, "daily") /\ req[r].market = "crypto")
       => \A resp \in CellResponses :
            (WellFormed(SeriesOf(resp)) /\ SeriesOf(resp) # <<>>)
            => /\ DailyEnd(r, resp).outcome = "return"
               /\ Len(DailyEnd(r, resp).result[1]) = Len(SeriesOf(resp))

\* a crypto get_intraday_data call returned and stored 100 rows of a longer
\* series: the oldest date is not among them
C21_Witness ==
  \E r \in Procs :
    /\ req[r].op = "intraday" /\ req[r].market = "crypto" /\ req[r].pc = "done"
    /\ req[r].outcome = "return"
    /\ Len(req[r].result[1]) = CryptoHead
    /\ req[r].result[1][CryptoHead].idx.at = 2
    /\ Len(db) = 1
    /\ written[1] = req[r].result

\* some row lacks one of the five USD fields
LacksUsdField(series) ==
  \E i \in 1..Len(series) : ~(UsdFields \subseteq DOMAIN series[i][2])

\* C22: crypto get_intraday_data on a time series in which a row lacks one
\* of the five USD fields raises a DataFetcherError whose message has
\* "Missing required columns for <symbol>"; no table is returned and no row
\* is written.
C22_MissingFieldReported ==
  \A r \in Procs :
    (Calling(r, "intraday") /\ req[r].market = "crypto")
    => \A resp \in CellResponses :
         LacksUsdField(SeriesOf(resp))
         => LET end == IntradayEnd(r, resp, "none")
            IN /\ end.req.outcome = "raise"
               /\ IsA(end.req.err.type, "DataFetcherError")
               /\ Follows(end.req.err.msg, "Missing required columns for ", req[r].symbol)
               /\ end.req.result = None
               /\ end.db = db

\* the column each USD field of the body ends up in
ColumnOf ==
  { <<"1a. open (USD)", "1. open">>, <<"2a. high (USD)", "2. high">>,
    <<"3a. low (USD)", "3. low">>, <<"4a. close (USD)", "4. close">>,
    <<"5. volume", "5. volume">> }

\* the table has exactly one row for date d of the series, with the five
\* columns and nothing else, each column holding the number the row's USD
\* field spells (NaN where the row has no such field)
RowNormalized(df, series, d) ==
  /\ Cardinality({ i \in 1..Len(df) : df[i].idx = Timestamp(d) }) = 1
  /\ \A i \in 1..Len(df), j \in 1..Len(series) :
       (df[i].idx = Timestamp(d) /\ series[j][1] = DateKey(d))
       => /\ DOMAIN df[i].val = Columns
          /\ \A fc \in ColumnOf :
               df[i].val[fc[2]] = IF fc[1] \in DOMAIN series[j][2]
                                  THEN [kind |-> "float", num |-> series[j][2][fc[1]].num]
                                  ELSE NaN

\* every row has the five USD fields and they spell numbers
UsdComplete(series) ==
  \A i \in 1..Len(series) :
    /\ UsdFields \subseteq DOMAIN series[i][2]
    /\ \A f \in UsdFields : series[i][2][f].num # None

AllNumbers(series, intraday) ==
  \A i \in 1..Len(series) : \A f \in DOMAIN series[i][2] :
    (intraday \/ f \in UsdFields) => series[i][2][f].num # None

\* every USD field occurs in some row
UsdColumnsThere(series) ==
  \A f \in UsdFields : \E i \in 1..Len(series) : f \in DOMAIN series[i][2]

\* the table holds exactly the dates `kept` of the series, each normalised
KeptNormalized(df, series, kept) ==
  /\ { df[i].idx : i \in 1..Len(df) } = { Timestamp(d) : d \in kept }
  /\ \A d \in kept : RowNormalized(df, series, d)

C24_MoversBypassCache ==
  \A r \in Procs :
    /\ req[r].op = "movers"
       => /\ req[r].calls = 1
          /\ req[r].lookups = <<>>
          /\ req[r].writes = <<>>
    /\ Calling(r, "movers")
       => \A resp \in MoversResponses :
            /\ MoversEnd(r, resp).pc = "done"
            /\ MoversEnd(r, resp).calls = 1
            /\ MoversEnd(r, resp).lookups = <<>>
            /\ MoversEnd(r, resp).writes = <<>>

\* a get_top_gainers_losers call was rate-limited while the cache held a
\* table within the stale tier
C24_Witness ==
  \E r \in Procs :
    /\ req[r].op = "movers" /\ req[r].pc = "done"
    /\ req[r].class = "rate_limit"
    /\ req[r].outcome = "raise"
    /\ \E symbol \in Symbols :
         get_cached_data(db, symbol, StaleMinutes, clock, utc_offset, TRUE).ret # None

\* an HTTP-200 body of TOP_GAINERS_LOSERS with neither "Error Message" nor
\* "Note"
NoErrorMarkers(resp) ==
  /\ Body200(resp)
  /\ ~resp.body.error_message
  /\ resp.body.note = "absent"

\* the list under a key of the body; the empty list when the key is absent
Delivered(opt) == IF opt = None THEN <<>> ELSE opt[1]

\* C25: on an HTTP-200 body without error markers get_top_gainers_losers
\* returns the pair (top_gainers, top_losers) as delivered; an empty list
\* or an absent key gives an empty list, never an error.
C25_MoversReturnedAsDelivered ==
  \A r \in Procs :
    Calling(r, "movers")
    => \A resp \in MoversResponses :
         NoErrorMarkers(resp)
         => /\ MoversEnd(r, resp).outcome = "return"
            /\ MoversEnd(r, resp).err = NoError
            /\ MoversEnd(r, resp).pair = Some(<<Delivered(resp.body.top_gainers),
                                                Delivered(resp.body.top_losers)>>)

\* a call returned a pair with no gainers and one loser
C25_Witness ==
  \E r \in Procs :
    /\ req[r].op = "movers" /\ req[r].pc = "done"
    /\ req[r].outcome = "return"
    /\ req[r].pair = Some(<< <<>>, <<"NVDA">> >>)

\* the provider's rate-limit answer: crypto an HTTP-200 body whose "Note"
\* has "API call frequency" (and no invalid-symbol marker), stock a
\* ValueError with "API rate limit" (and without "Invalid API call")
RateLimitAnswer(resp, market_type) ==
  IF market_type = "crypto"
  THEN /\ Body200(resp)
       /\ resp.body.note # "absent" /\ Has(resp.body.note, "API call frequency")
       /\ ~ReportsInvalidSymbol(resp, market_type)
  ELSE /\ resp.kind = "raise"
       /\ resp.type = "ValueError"
       /\ Has(resp.text, "API rate limit")
       /\ ~ReportsInvalidSymbol(resp, market_type)

\* C26: get_daily_data makes no cache lookup and no cache write; on a
\* rate-limit answer it raises APIError with "API rate limit" in the
\* message, whatever the cache holds.
C26_DailyBypassesCache ==
  \A r \in Procs :
    /\ req[r].op = "daily"
       => /\ req[r].lookups = <<>>
          /\ req[r].writes = <<>>
          /\ req[r].calls <= 1
    /\ Calling(r, "daily")
       => \A resp \in ProviderAnswers(req[r].symbol, req[r].market) :
            LET end == DailyEnd(r, resp)
            IN /\ end.lookups = <<>>
               /\ end.writes = <<>>
               /\ RateLimitAnswer(resp, req[r].market)
                  => /\ end.outcome = "raise"
                     /\ end.err.type = "APIError"
                     /\ Contains(end.err.msg, "API rate limit")
                     /\ end.result = None

\* a get_daily_data call was rate-limited and raised although a fresh
\* table of the symbol was in the cache
C26_Witness ==
  \E r \in Procs :
    /\ req[r].op = "daily" /\ req[r].pc = "done"
    /\ req[r].class = "rate_limit"
    /\ req[r].err.type = "APIError"
    /\ req[r].lookups = <<>>
    /\ get_cached_data(db, req[r].symbol, FreshMinutes, clock, utc_offset, TRUE).ret # None

\* ------------------------------------------ properties of the analyzer
Analyzed == analyzer.pc = "analyzed"

\* the row of the table with the greatest timestamp
MostRecent(data) ==
  data[CHOOSE i \in 1..Len(data) : \A j \in 1..Len(data) : data[j].idx.at <= data[i].idx.at]

\* the weights of the conditions that hold on `row` of the analysed table
WeightsOn(row, data) ==
  (IF row["macd"].num # None /\ row["macd_signal"].num # None
      /\ row["macd"].num[1] > row["macd_signal"].num[1] THEN 25 ELSE 0)
  + (IF row["ema_short"].num # None /\ row["ema_long"].num # None
        /\ row["ema_short"].num[1] > row["ema_long"].num[1] THEN 25 ELSE 0)
  + (IF Len(data) >= 5
        /\ (\A i \in (Len(data) - 4)..Len(data) : data[i].val["5. volume"].num # None)
        /\ 5 * row["5. volume"].num[1]
             > Sum([i \in 1..5 |-> data[Len(data) - 5 + i].val["5. volume"]]) THEN 20 ELSE 0)
  + (IF row["ema_short"].num # None
        /\ row["4. close"].num[1] > row["ema_short"].num[1] THEN 15 ELSE 0)
  + (IF row["rsi"].num # None
        /\ 40 <= row["rsi"].num[1] /\ row["rsi"].num[1] <= 60 THEN 15 ELSE 0)

\* C27: analyze() reports macd, macd_signal, ema_short, ema_long and rsi of
\* the row with the greatest timestamp of the table it was given, and the
\* score is evaluated on that row; also for the tables get_intraday_data
\* returns, which are ordered most recent first.
C27_EvaluatesMostRecentRow ==
  Analyzed
  => LET row == MostRecent(analyzer.data).val
         res == analyzer.results[1]
     IN /\ res.macd = row["macd"]
        /\ res.macd_signal = row["macd_signal"]
        /\ res.ema_short = row["ema_short"]
        /\ res.ema_long = row["ema_long"]
        /\ res.rsi = row["rsi"]
        /\ res.score = WeightsOn(row, analyzer.data)

\* C28: the score is the sum of the weights of the conditions that hold on
\* the evaluated row, with weights 25 (macd > macd_signal), 25 (ema_short >
\* ema_long), 20 (volume > 5-row rolling mean), 15 (close > ema_short) and
\* 15 (40 <= rsi <= 60); the weights sum to 100 and the score is an integer
\* from 0 to 100.
C28_ScoreIsSumOfWeights ==
  /\ 25 + 25 + 20 + 15 + 15 = 100
  /\ Analyzed
     => /\ analyzer.results[1].score
             = WeightsOn(analyzer.data[Len(analyzer.data)].val, analyzer.data)
        /\ analyzer.results[1].score \in 0..100

\* all five conditions held on a table of at least five rows
C28_Witness ==
  /\ Analyzed
  /\ analyzer.results[1].score = 100
  /\ Len(analyzer.data) >= 5

\* C29: analyze() leaves the table it was given as it was: the same
\* columns and the same values before and after the analysis.
C29_AnalyzeLeavesTableUnchanged ==
  Analyzed => analyzer.data = analyzer.given

\* --------------------------------------- properties of concurrent calls
\* caller r asked for the symbol without force_refresh, missed the fresh
\* tier and waits for the provider
MissedAndCalling(r, symbol) ==
  /\ req[r].pc = "calling"
  /\ req[r].op = "intraday"
  /\ req[r].symbol = symbol
  /\ ~req[r].force_refresh
  /\ Len(req[r].lookups) = 1
  /\ req[r].lookups[1].ret = None

TableAnswers(r) ==
  { resp \in ProviderAnswers(req[r].symbol, req[r].market) :
      get_intraday_data_finish(req[r], <<>>, clock, utc_offset, resp,
                               TRUE, TRUE, TRUE).req.fetched # None }

\* C30: there is no single-flight.  A get_intraday_data(force_refresh=false)
\* call that misses the fresh tier issues a provider call of its own also
\* while another call for the same symbol is in flight; and when two such
\* calls are in flight and both are answered with a table, each inserts its
\* own row.
C30_NoSingleFlight ==
  /\ \A r \in Callers :
       req[r].op = "intraday" /\ req[r].pc = "calling" => req[r].calls = 1
  /\ \A r1, r2 \in Callers, symbol \in Symbols :
       r1 # r2 /\ MissedAndCalling(r1, symbol) /\ MissedAndCalling(r2, symbol)
       => \A a1 \in TableAnswers(r1), a2 \in TableAnswers(r2) :
            LET one == get_intraday_data_finish(req[r1], db, clock, utc_offset, a1,
                                                TRUE, TRUE, TRUE)
                two == get_intraday_data_finish(req[r2], one.db, clock, utc_offset, a2,
                                                TRUE, TRUE, TRUE)
            IN /\ Len(one.db) = Len(db) + 1
               /\ Len(two.db) = Len(db) + 2
               /\ one.req.writes = <<Len(db) + 1>>
               /\ two.req.writes = <<Len(db) + 2>>
               /\ one.req.calls = 1
               /\ two.req.calls = 1

\* two provider calls for the same symbol are in flight, both after a miss
C30_Witness ==
  \E symbol \in Symbols :
    /\ MissedAndCalling(1, symbol)
    /\ MissedAndCalling(2, symbol)
    /\ TableAnswers(1) # {}
    /\ TableAnswers(2) # {}

\* ----------------------------------------- properties of the dashboard
\* analyze_symbol has ended after get_intraday_data raised an APIError
EndedOnAPIError(r) ==
  /\ page.pc = "done"
  /\ req[r].pc = "done"
  /\ req[r].outcome = "raise"
  /\ req[r].err.type = "APIError"

Levels(pg) == { pg.shown[i].level : i \in 1..Len(pg.shown) }

\* the stored tables of the symbol that are at most `age` minutes old
TablesWithin(symbol, age) ==
  { i \in 1..Len(db) : /\ db[i].symbol = symbol
                       /\ db[i].data_json # None
                       /\ clock - db[i].timestamp <= age }

\* C31: when get_intraday_data raises an APIError whose message contains
\* "rate limit" in any case, analyze_symbol displays a warning and no error,
\* and returns the cached table with no analysis results if a table of the
\* symbol at most 30 minutes old is stored, None otherwise; any other
\* APIError is displayed as an error and yields None.  Read for runs in
\* which the storage layer answers the dashboard's lookup.
C31_RateLimitIsSoftWarning ==
  \A r \in Procs :
    EndedOnAPIError(r) /\ (\A i \in 1..Len(page.lookups) : ~page.lookups[i].failed)
    => IF \E i \in 1..Len(req[r].err.msg) : <<req[r].err.msg[i], "rate limit">> \in LowerHas
       THEN /\ "warning" \in Levels(page)
            /\ "error" \notin Levels(page)
            /\ IF TablesWithin(req[r].symbol, 30) # {}
               THEN /\ page.returned
                    /\ page.analysis = None
                    /\ \E i \in TablesWithin(req[r].symbol, 30) :
                         page.data = Some(from_dict(PyEval(db[i].data_json[1])))
               ELSE ~page.returned
       ELSE /\ Levels(page) = {"error"}
            /\ ~page.returned

\* the dashboard flow has run for the symbol: row i holds the table
\* get_intraday_data fetched, a later row the score bundle of line 133
FlowRan(symbol, i) ==
  /\ db[i].symbol = symbol
  /\ db[i].data_json # None
  /\ \E j \in (i + 1)..Len(db) :
       /\ db[j].symbol = symbol
       /\ db[j].data_json = None
       /\ \E results \in AnalysisResults : db[j].score = results.score

\* C32: after the dashboard flow (table fetched and written, analysis run,
\* score bundle stored without raw data), a second
\* get_intraday_data(force_refresh=false) for the symbol within 5 minutes
\* returns the previously fetched table from the cache and calls no provider.
C32_SecondCallServedFromCache ==
  \A symbol \in Symbols, i \in 1..Len(db) :
    /\ page.pc = "blank"
    /\ FlowRan(symbol, i)
    /\ clock - db[i].timestamp < FreshMinutes
    /\ \A k \in (i + 1)..Len(db) : db[k].symbol = symbol => db[k].data_json = None
    => LET rq == get_intraday_data_begin(db, clock, utc_offset, symbol, "stock", FALSE, TRUE)
       IN /\ rq.pc = "done"
          /\ rq.outcome = "return"
          /\ rq.calls = 0
          /\ rq.lookups[1].hit = i

AllZero(row) ==
  /\ row.score = 0
  /\ row.macd = 0
  /\ row.macd_signal = 0
  /\ row.ema_short = 0
  /\ row.ema_long = 0

\* the newest row of the symbol holds a real analysis
RealAnalysisLatest(d, symbol) ==
  /\ get_latest_analysis(d, symbol) # 0
  /\ ~AllZero(d[get_latest_analysis(d, symbol)])

\* C36: every row get_intraday_data writes carries the bundle score = macd
\* = macd_signal = ema_short = ema_long = 0; so when a real analysis is the
\* symbol's latest row and get_intraday_data then fetches a table from the
\* provider, get_latest_analysis(symbol) is the all-zero row it wrote.
C36_FetchLeavesPlaceholderLatest ==
  \A r \in Procs :
    /\ \A i \in 1..Len(req[r].writes) : AllZero(db[req[r].writes[i]])
    /\ \A i \in 1..Len(db) : db[i].data_json # None => AllZero(db[i])
    /\ req[r].pc = "calling" /\ RealAnalysisLatest(db, req[r].symbol)
       => \A resp \in DashboardAnswers(req[r].symbol, req[r].market) :
            LET out == get_intraday_data_finish(req[r], db, clock, utc_offset, resp,
                                                TRUE, TRUE, TRUE)
            IN out.req.fetched # None
               => /\ Len(out.db) = Len(db) + 1
                  /\ get_latest_analysis(out.db, req[r].symbol) = Len(out.db)
                  /\ AllZero(out.db[Len(out.db)])

\* a real analysis was stored, a later get_intraday_data fetched and wrote,
\* and the symbol's latest row is that all-zero row (the save of line 133
\* did not follow)
C36_Witness ==
  /\ page.pc = "done"
  /\ req[1].pc = "done"
  /\ req[1].fetched # None
  /\ req[1].writes # <<>>
  /\ \E j \in 1..Len(db) : /\ db[j].symbol = req[1].symbol
                          /\ ~AllZero(db[j])
                          /\ j < req[1].writes[1]
  /\ get_latest_analysis(db, req[1].symbol) = req[1].writes[1]
  /\ AllZero(db[get_latest_analysis(db, req[1].symbol)])

\* ------------------------------- further properties of get_intraday_data
ForcedDone(r) ==
  /\ req[r].op = "intraday"
  /\ req[r].force_refresh
  /\ req[r].pc = "done"

\* C33: with force_refresh=true a table comes from the cache only when the
\* provider call of the same request was classified as rate-limited; then
\* exactly one lookup, with max_age 15, is made, and a miss raises APIError
\* "API rate limit reached"; in every other outcome that returns, the table
\* returned is the one just fetched.
C33_ForcedCacheOnlyOnRateLimit ==
  \A r \in Procs :
    ForcedDone(r)
    => /\ req[r].calls = 1
       /\ IF req[r].class = "rate_limit"
          THEN /\ Len(req[r].lookups) = 1
               /\ req[r].lookups[1].max_age = 15
               /\ req[r].writes = <<>>
               /\ IF req[r].lookups[1].ret # None
                  THEN /\ req[r].outcome = "return"
                       /\ req[r].result = Some(from_dict(req[r].lookups[1].ret[1]))
                       /\ req[r].lookups[1].hit \in 1..Len(db)
                  ELSE /\ req[r].outcome = "raise"
                       /\ req[r].err.type = "APIError"
                       /\ Contains(req[r].err.msg, "API rate limit")
          ELSE /\ req[r].lookups = <<>>
               /\ req[r].outcome = "return"
                  => /\ req[r].fetched # None
                     /\ req[r].result = req[r].fetched

\* a forced request, rate-limited, was served a stored table younger than
\* 5 minutes
C33_Witness ==
  /\ ForcedDone(1)
  /\ req[1].class = "rate_limit"
  /\ req[1].outcome = "return"
  /\ clock - db[req[1].lookups[1].hit].timestamp < 5

\* C34: a get_intraday_data request that obtains no table from the
\* provider leaves the stored rows as they are: a step of such a request
\* (fresh cache hit, stale rate-limit fallback, or any error) adds no row
\* and changes no row.
C34_NoTableNoWrite ==
  [][\A r \in Procs :
       /\ req'[r] # req[r]
       /\ req'[r].op = "intraday"
       /\ req'[r].fetched = None
       => db' = db]_vars

\* a request was served by the stale fallback while rows were stored
C34_Witness ==
  /\ req[1].op = "intraday"
  /\ req[1].pc = "done"
  /\ ~req[1].force_refresh
  /\ req[1].class = "rate_limit"
  /\ req[1].outcome = "return"
  /\ req[1].fetched = None
  /\ req[1].writes = <<>>
  /\ Len(db) = 1

\* row i is the symbol's newest row and holds a table
NewestIsTable(symbol, i) ==
  /\ get_latest_analysis(db, symbol) = i
  /\ i # 0
  /\ db[i].data_json # None

\* C35: the cache is keyed by the symbol alone: whatever market type (and
\* interval) a table was fetched for, a get_intraday_data(force_refresh =
\* false) for the same symbol with any market type, issued within 5 minutes
\* of that fetch, returns the stored table and calls no provider.
C35_KeyedBySymbolAlone ==
  \A symbol \in Symbols, i \in 1..Len(db), market_type \in Markets :
    /\ NewestIsTable(symbol, i)
    /\ clock - db[i].timestamp < FreshMinutes
    => LET rq == get_intraday_data_begin(db, clock, utc_offset, symbol, market_type,
                                         FALSE, TRUE)
       IN /\ rq.pc = "done"
          /\ rq.outcome = "return"
          /\ rq.calls = 0
          /\ rq.lookups[1].hit = i
          /\ rq.result = Some(from_dict(PyEval(db[i].data_json[1])))

\* C37: when the provider returned a valid table and the commit of the
\* cache row fails in the storage layer, no row is added and
\* get_intraday_data raises a DataFetcherError instead of returning the
\* table.
C37_FailedWriteRaises ==
  \A r \in Procs :
    /\ Calling(r, "intraday")
       => \A resp \in ProviderAnswers(req[r].symbol, req[r].market) :
            LET out == get_intraday_data_finish(req[r], db, clock, utc_offset, resp,
                                                FALSE, TRUE, TRUE)
            IN out.req.fetched # None
               => /\ out.db = db
                  /\ out.req.writes = <<>>
                  /\ out.req.outcome = "raise"
                  /\ out.req.err.type = "DataFetcherError"
                  /\ out.req.result = None
    /\ req[r].op = "intraday" /\ req[r].pc = "done" /\ req[r].fetched # None
       /\ req[r].writes = <<>>
       => /\ req[r].outcome = "raise"
          /\ req[r].err.type = "DataFetcherError"
          /\ req[r].result = None

\* a table was fetched, its row was not stored and the call raised
C37_Witness ==
  /\ req[1].op = "intraday"
  /\ req[1].pc = "done"
  /\ req[1].fetched # None
  /\ req[1].writes = <<>>
  /\ req[1].outcome = "raise"
  /\ db = <<>>

\* the provider call of the stock path raised a ValueError
StockValueErrors ==
  { resp \in StockResponses : resp.kind = "raise" /\ resp.type = "ValueError" }

\* C38: on the stock path a ValueError of the provider call falls under
\* exactly one rule, in this order: "Invalid API call" in the message gives
\* InvalidSymbolError without a fallback lookup; else "API rate limit" gives
\* one lookup with max_age 15 and the cached table, or APIError "API rate
\* limit reached" on a miss; else APIError "API error: <message>" without a
\* lookup.  No outcome writes to the cache.
C38_StockValueErrorRules ==
  \A r \in Procs :
    Calling(r, "intraday") /\ req[r].market = "stock"
    => \A resp \in StockValueErrors, read_ok \in BOOLEAN :
         LET out == get_intraday_data_finish(req[r], db, clock, utc_offset, resp,
                                             TRUE, TRUE, read_ok)
             before == Len(req[r].lookups)
             looks == out.req.lookups
         IN /\ out.db = db
            /\ out.req.writes = <<>>
            /\ IF Contains(<<resp.text>>, "Invalid API call")
               THEN /\ out.req.outcome = "raise"
                    /\ out.req.err.type = "InvalidSymbolError"
                    /\ looks = req[r].lookups
               ELSE IF Contains(<<resp.text>>, "API rate limit")
               THEN /\ Len(looks) = before + 1
                    /\ looks[before + 1].max_age = 15
                    /\ IF looks[before + 1].ret # None
                       THEN /\ out.req.outcome = "return"
                            /\ out.req.result = Some(from_dict(looks[before + 1].ret[1]))
                       ELSE /\ out.req.outcome = "raise"
                            /\ out.req.err.type = "APIError"
                            /\ Contains(out.req.err.msg, "API rate limit")
               ELSE /\ out.req.outcome = "raise"
                    /\ out.req.err.type = "APIError"
                    /\ out.req.err.msg = <<"API error: ", resp.text>>
                    /\ looks = req[r].lookups

\* a stock call ended on a ValueError matching neither text
C38_Witness ==
  /\ req[1].op = "intraday"
  /\ req[1].market = "stock"
  /\ req[1].pc = "done"
  /\ req[1].class = "api_error"
  /\ req[1].err.msg = <<"API error: ", "premium endpoint">>

\* ------------------------------------- the score on undefined operands
\* the weights of the conditions of which an operand is undefined on `row`
UndefinedWeights(row, data) ==
  (IF row["macd"].num = None \/ row["macd_signal"].num = None THEN 25 ELSE 0)
  + (IF row["ema_short"].num = None \/ row["ema_long"].num = None THEN 25 ELSE 0)
  + (IF Len(data) < 5 THEN 20 ELSE 0)
  + (IF row["ema_short"].num = None THEN 15 ELSE 0)
  + (IF row["rsi"].num = None THEN 15 ELSE 0)

\* C39: for every non-empty table, also one shorter than the indicator
\* windows, the score is computed: a condition with an undefined operand
\* (NaN macd, macd_signal or rsi, or the NaN 5-row volume mean of a table of
\* fewer than 5 rows) contributes 0, the score is the sum of the weights of
\* the defined and satisfied conditions and lies in 0..100.
C39_UndefinedOperandsCountZero ==
  Analyzed
  => LET data == analyzer.data
         row == data[Len(data)].val
         score == analyzer.results[1].score
     IN /\ analyzer.results # None
        /\ score \in 0..100
        /\ score <= 100 - UndefinedWeights(row, data)
        /\ score = WeightsOn(row, data)
        /\ row["macd"].num = None /\ row["rsi"].num = None /\ Len(data) < 5
           => score \in {0, 15, 25, 40}

\* a table of fewer than 5 rows with NaN macd and rsi scored 40
C39_Witness ==
  /\ Analyzed
  /\ Len(analyzer.data) < 5
  /\ analyzer.data[Len(analyzer.data)].val["macd"].num = None
  /\ analyzer.data[Len(analyzer.data)].val["rsi"].num = None
  /\ analyzer.results[1].score = 40

====
